---- MODULE Spec2Model ----
(***************************************************************************)
(* Model of the synthetic activity-timeline generator                      *)
(* (sj-collector/test-data/generate_data.py).                              *)
(*                                                                         *)
(* Time is kept in whole seconds: a datetime is the number of seconds      *)
(* since 00:00 of day 0, and day 0 is a Monday, so date.weekday() is the   *)
(* day index modulo 7.  The global random stream of the `random` module    *)
(* is the variable rng: a small linear congruential generator whose seed   *)
(* ranges over Seeds.  Every draw of the program reads the current rng     *)
(* and advances it, in the order the source makes its draws.               *)
(***************************************************************************)
EXTENDS Integers, Sequences, FiniteSets, TLC

\* ------------------------------------------------------------------ bounds
\* Number of seeds of the random stream that are explored.
NumSeeds == 48
\* Size of the state space of the modelled pseudo-random generator.
RngMod == 256

Seeds == 0 .. (NumSeeds - 1)
\* Longest presence-segment list and longest event list handed to
\* calculate_daily_metrics and aggregate_app_usage when they are called on
\* their own.
MaxStatuses == 2
MaxEvents == 3
\* Longest string handed to the line-protocol escaping functions.
MaxLen == 3

\* ------------------------------------------------------- program constants
\* A retry loop that allows one more placement draw.
MaxAttemptsOneMore == 10 + 1

\* generate_breaks: `while attempts < 10`
MaxAttempts == 10
\* A limit under which a coffee break of exactly 10 minutes is idle.
IdleLimitInclusive == 600 + 1

\* generate_afk_statuses: `if duration < 600` (a coffee break is idle below it)
IdleLimit == 600

\* --------------------------------------------------------------- utilities
Min(a, b) == IF a < b THEN a ELSE b

\* dict.get(key, default)
Get(d, k, default) == IF k \in DOMAIN d THEN d[k] ELSE default

\* timedelta.seconds of a difference of d seconds: timedelta normalises to
\* (days, seconds) with 0 <= seconds < 86400, so a negative difference wraps.
TdSeconds(d) == d % 86400

\* timedelta.total_seconds() truncated by int(): the true difference.
TotalSeconds(d) == d

\* datetime.strptime(f"{date.date()} {hm}", '%Y-%m-%d %H:%M') for hm = <<h, m>>
StrpTime(day, hm) == day * 86400 + hm[1] * 3600 + hm[2] * 60

\* is_weekend with the limit off by one: Saturday counts as a workday.
is_weekend_from_sunday(day) == (day % 7) >= 6

\* is_weekend(date): date.weekday() >= 5
is_weekend(day) == (day % 7) >= 5

\* -------------------------------------------------------- the random stream
\* One step of the generator: the stream position moves by one draw.
Adv(r) == (r * 101 + 43) % RngMod

RECURSIVE Skip(_, _)
\* The generator after k draws.
Skip(r, k) == IF k = 0 THEN r ELSE Skip(Adv(r), k - 1)

\* random.randint(a, b) read off the generator state r (a <= b): r scaled
\* onto a..b and rounded to the nearest integer, so both ends are produced.
RandInt(a, b, r) == a + (2 * r * (b - a) + (RngMod - 1)) \div (2 * (RngMod - 1))

\* random.choice(seq): an index of seq.
ChoiceIndex(n, r) == 1 + (r * n) \div RngMod

\* random.random() < num / den
RandomBelow(num, den, r) == r * den < num * RngMod

RECURSIVE SumSeq(_)
SumSeq(s) == IF s = <<>> THEN 0 ELSE s[1] + SumSeq(Tail(s))

RECURSIVE BisectIndex(_, _, _, _)
\* bisect over the cumulative weights: first index whose cumulative weight
\* exceeds random() * total.
BisectIndex(w, i, acc, x) ==
    IF i >= Len(w) THEN Len(w)
    ELSE IF (acc + w[i]) * RngMod > x THEN i
    ELSE BisectIndex(w, i + 1, acc + w[i], x)

\* random.choices(population, weights=w)[0] as an index of the population.
ChoicesIndex(w, r) == BisectIndex(w, 1, 0, r * SumSeq(w))

\* timedelta(minutes=m) and timedelta(seconds=s), in seconds
Minutes(m) == m * 60

None == [none |-> TRUE]

\* ------------------------------------------------------------ the profiles
\* WINDOW_TITLES, restricted to the apps the profiles below use.
WINDOW_TITLES ==
    [VSCode |-> <<"main.go - VSCode", "api.py - VSCode", "README.md - VSCode",
                  "config.json - VSCode", "test_utils.py - VSCode", "server.js - VSCode">>,
     Terminal |-> <<"Terminal", "bash", "npm run dev", "git status", "docker ps">>,
     Chrome |-> <<"Gmail - Chrome", "Google Search - Chrome", "Stack Overflow - Chrome",
                  "GitHub - Chrome", "Documentation - Chrome", "AWS Console - Chrome">>,
     Slack |-> <<"#general - Slack", "#engineering - Slack", "#random - Slack",
                 "Direct Messages - Slack">>,
     Zoom |-> <<"Meeting - Zoom", "Zoom Call">>,
     Reddit |-> <<"Reddit - Front Page", "r/programming - Reddit">>,
     YouTube |-> <<"YouTube", "Watch - YouTube">>]

\* A focused worker: a session around the 4 hour lunch limit, short and long
\* coffee breaks, a Saturday schedule and no Sunday schedule.
Alice ==
    [username |-> "alice", hostnames |-> <<"alice-laptop", "alice-desktop">>,
     work_hours |-> [start |-> <<9, 0>>, end |-> <<13, 10>>, variance_minutes |-> 20],
     weekend_activity |-> TRUE,
     weekend_schedule |-> [saturday |-> [start |-> <<10, 0>>, end |-> <<10, 30>>]],
     afk_behavior |-> [lunch_minutes |-> <<30, 45>>, coffee_breaks |-> <<1, 2>>,
                       break_duration_minutes |-> <<5, 15>>],
     apps |-> [productive |-> <<"VSCode", "Terminal">>, neutral |-> <<"Slack">>,
               unproductive |-> <<"Reddit">>],
     productivity |-> [app_switches_per_day |-> <<20, 40>>]]

\* A high switcher with a short day and no weekend work.
Bob ==
    [username |-> "bob", hostnames |-> <<"bob-pc">>,
     work_hours |-> [start |-> <<9, 0>>, end |-> <<9, 20>>, variance_minutes |-> 5],
     weekend_activity |-> FALSE,
     afk_behavior |-> [lunch_minutes |-> <<30, 60>>, coffee_breaks |-> <<0, 2>>,
                       break_duration_minutes |-> <<1, 3>>],
     apps |-> [productive |-> <<"Chrome">>, neutral |-> <<"Zoom">>,
               unproductive |-> <<"YouTube">>],
     productivity |-> [app_switches_per_day |-> <<90, 130>>]]

\* A medium switcher whose coffee breaks crowd a 20 minute session; the
\* weekend_activity key is absent; one app has no title pool.
Carol ==
    [username |-> "carol", hostnames |-> <<"carol-pc", "carol, home=mac">>,
     work_hours |-> [start |-> <<10, 0>>, end |-> <<10, 20>>, variance_minutes |-> 0],
     weekend_schedule |-> [saturday |-> [start |-> <<10, 0>>, end |-> <<11, 0>>]],
     afk_behavior |-> [lunch_minutes |-> <<30, 60>>, coffee_breaks |-> <<2, 3>>,
                       break_duration_minutes |-> <<9, 10>>],
     apps |-> [productive |-> <<"Notepad">>, neutral |-> <<"Slack">>,
               unproductive |-> <<>>],
     productivity |-> [app_switches_per_day |-> <<55, 70>>]]

\* Break ranges that start at 0 minutes.
Dave ==
    [username |-> "dave", hostnames |-> <<"dave-pc">>,
     work_hours |-> [start |-> <<9, 0>>, end |-> <<13, 10>>, variance_minutes |-> 0],
     weekend_activity |-> FALSE,
     afk_behavior |-> [lunch_minutes |-> <<0, 30>>, coffee_breaks |-> <<1, 3>>,
                       break_duration_minutes |-> <<0, 10>>],
     apps |-> [productive |-> <<"VSCode">>, neutral |-> <<>>,
               unproductive |-> <<"Reddit">>],
     productivity |-> [app_switches_per_day |-> <<10, 30>>]]

\* A lunch range that reaches beyond half of the session.
Erin ==
    [username |-> "erin", hostnames |-> <<"erin-pc">>,
     work_hours |-> [start |-> <<9, 0>>, end |-> <<13, 10>>, variance_minutes |-> 0],
     weekend_activity |-> FALSE,
     afk_behavior |-> [lunch_minutes |-> <<60, 150>>, coffee_breaks |-> <<0, 1>>,
                       break_duration_minutes |-> <<5, 10>>],
     apps |-> [productive |-> <<"VSCode">>, neutral |-> <<"Slack">>,
               unproductive |-> <<>>],
     productivity |-> [app_switches_per_day |-> <<20, 40>>]]

\* A variance larger than the work window; an empty Saturday schedule and
\* a Sunday schedule.
Frank ==
    [username |-> "frank", hostnames |-> <<"frank-pc">>,
     work_hours |-> [start |-> <<9, 0>>, end |-> <<10, 0>>, variance_minutes |-> 90],
     weekend_activity |-> TRUE,
     weekend_schedule |-> [saturday |-> None,
                           sunday |-> [start |-> <<14, 0>>, end |-> <<14, 30>>]],
     afk_behavior |-> [lunch_minutes |-> <<30, 60>>, coffee_breaks |-> <<0, 1>>,
                       break_duration_minutes |-> <<10, 40>>],
     apps |-> [productive |-> <<"Terminal">>, neutral |-> <<>>,
               unproductive |-> <<"YouTube">>],
     productivity |-> [app_switches_per_day |-> <<20, 40>>]]

\* No app in any of the three lists.
Gina ==
    [username |-> "gina", hostnames |-> <<"gina-pc">>,
     work_hours |-> [start |-> <<9, 0>>, end |-> <<9, 30>>, variance_minutes |-> 0],
     weekend_activity |-> FALSE,
     afk_behavior |-> [lunch_minutes |-> <<30, 60>>, coffee_breaks |-> <<0, 0>>,
                       break_duration_minutes |-> <<5, 10>>],
     apps |-> [productive |-> <<>>, neutral |-> <<>>, unproductive |-> <<>>],
     productivity |-> [app_switches_per_day |-> <<20, 40>>]]

\* The 09:00-17:00 scenario: no variance, a 30 minute lunch, no coffee
\* break, the single app Chrome.
Hank ==
    [username |-> "hank", hostnames |-> <<"hank-pc">>,
     work_hours |-> [start |-> <<9, 0>>, end |-> <<17, 0>>, variance_minutes |-> 0],
     weekend_activity |-> FALSE,
     afk_behavior |-> [lunch_minutes |-> <<30, 30>>, coffee_breaks |-> <<0, 0>>,
                       break_duration_minutes |-> <<5, 10>>],
     apps |-> [productive |-> <<"Chrome">>, neutral |-> <<>>, unproductive |-> <<>>],
     productivity |-> [app_switches_per_day |-> <<20, 40>>]]

\* Work hours that fill the day: with the offsets drawn the session lasts
\* from 23:57 to 24:01 hours.
Ivan ==
    [username |-> "ivan", hostnames |-> <<"ivan-pc">>,
     work_hours |-> [start |-> <<0, 0>>, end |-> <<23, 59>>, variance_minutes |-> 1],
     weekend_activity |-> FALSE,
     afk_behavior |-> [lunch_minutes |-> <<30, 30>>, coffee_breaks |-> <<0, 0>>,
                       break_duration_minutes |-> <<5, 10>>],
     apps |-> [productive |-> <<"Chrome">>, neutral |-> <<>>, unproductive |-> <<>>],
     productivity |-> [app_switches_per_day |-> <<20, 40>>]]

\* The profile documents explored: the users in profile order and the
\* date range [start, end] as day indices (day 0 is a Monday).
Scenarios ==
    { [users |-> <<Alice, Bob>>, start |-> 4, end |-> 6],
      [users |-> <<Carol, Dave>>, start |-> 5, end |-> 7],
      [users |-> <<Erin>>, start |-> 1, end |-> 1],
      [users |-> <<Frank>>, start |-> 4, end |-> 6],
      [users |-> <<Gina>>, start |-> 3, end |-> 3],
      [users |-> <<Hank>>, start |-> 2, end |-> 2] }

RECURSIVE get_date_range(_, _)
\* get_date_range(start_str, end_str): the dates from start to end, inclusive.
get_date_range(start, end) ==
    IF start <= end THEN <<start>> \o get_date_range(start + 1, end) ELSE <<>>

\* ------------------------------------------------------------------- state
VARIABLES
    users,                  \* profiles_data['users']
    date_range,             \* get_date_range(...) of the profile document
    seed,                   \* the seed the random stream started from
    run,                    \* how many times the program has been started
    first_run,              \* the four lists the first run returned
    rng,                    \* the state of the global random stream
    pc,                     \* position of generate_all_data
    ui, di,                 \* indices of the user and date loops
    hostname,               \* generate_all_data: hostname
    work_session,           \* generate_all_data: work_session (None or a session)
    start_variance,         \* generate_work_session: start_variance
    end_variance,           \* generate_work_session: end_variance
    breaks,                 \* generate_breaks: breaks, then generate_all_data: breaks
    work_duration,          \* generate_breaks: work_duration
    num_breaks,             \* generate_breaks: num_breaks
    coffee_i,               \* generate_breaks: coffee breaks already requested
    break_duration,         \* generate_breaks: break_duration
    attempts,               \* generate_breaks: attempts
    activities,             \* generate_window_activities: activities
    current_time,           \* generate_window_activities: current_time
    current_app,            \* generate_window_activities: current_app
    statuses,               \* generate_all_data: statuses
    usage_map,              \* aggregate_app_usage: usage_by_hour_app, in insertion order
    agg_i,                  \* aggregate_app_usage: activities already aggregated
    daily_metric,           \* generate_all_data: daily_metric
    all_window_activities,  \* generate_all_data: accumulated WindowActivity records
    all_afk_statuses,       \* generate_all_data: accumulated AfkStatus records
    all_app_usage,          \* generate_all_data: accumulated AppUsage records
    all_daily_metrics,      \* generate_all_data: accumulated DailyMetric records
    lp_s,                   \* escape_lp_tag: the argument s, a sequence of characters
    lp_escaped,             \* escape_lp_tag: the string returned
    \* --- chat agent: backend_client.py
    tool_name,              \* execute_tool: tool_name
    tool_reply,             \* execute_tool: what requests.post returns or raises
    tool_outcome,           \* execute_tool: the value returned or the exception raised
    \* --- chat agent: server.py
    chat_sessions,          \* chat_sessions: session id -> list object
    agent_cache,            \* agent_cache: API key -> agent instance
    lists,                  \* the list objects made for histories, by identity
    agents_made,            \* number of agent instances create_agent has returned
    received,               \* number of requests received
    tpc,                    \* per handler thread: position in the handler
    request,                \* per handler thread: the request being handled
    agent_executor,         \* chat: agent_executor
    chat_history,           \* chat: chat_history (a list object)
    response_text,          \* chat: response_text
    agent_result,           \* process_message: what agent_executor.invoke returned or raised
    http_reply,             \* per handler thread: the HTTP response last sent
    transcript              \* per session id: the exchanges its clients were answered with

inputs == <<users, date_range, seed, run, first_run>>
loop == <<ui, di, hostname>>
session_locals == <<start_variance, end_variance>>
break_locals == <<work_duration, num_breaks, coffee_i, break_duration, attempts>>
activity_locals == <<activities, current_time, current_app>>
pair_results == <<statuses, usage_map, agg_i, daily_metric>>
outputs == <<all_window_activities, all_afk_statuses, all_app_usage, all_daily_metrics>>
export_locals == <<lp_s, lp_escaped>>
tool_vars == <<tool_name, tool_reply, tool_outcome>>
server_globals == <<chat_sessions, agent_cache, lists, agents_made>>
handler_locals == <<request, agent_executor, chat_history, response_text, agent_result>>
server_vars == <<server_globals, received, tpc, handler_locals, http_reply, transcript>>
agent_vars == <<tool_vars, server_vars>>

vars == <<inputs, rng, pc, loop, work_session, session_locals, breaks, break_locals,
          activity_locals, pair_results, outputs, export_locals, agent_vars>>

\* The user and the date of the loop iteration in progress.
user_profile == users[ui]
date == date_range[di]

\* A stream seeded from something that differs between runs.
ReseedPerRun(s, n) == (s + n) % RngMod

\* random.seed(42) when the module is loaded for the n-th run of the
\* program: the stream starts from the seed, whatever the run.
Reseed(s, n) == s

\* The chat agent is not part of the run: no tool call, a server just
\* started with no request received.
ToolAtRest ==
    tool_name = "" /\ tool_reply = None /\ tool_outcome = None

ServerAtRest ==
    /\ chat_sessions = <<>> /\ agent_cache = <<>>
    /\ lists = <<>> /\ agents_made = 0
    /\ received = 0
    /\ tpc = <<>> /\ request = <<>> /\ agent_executor = <<>>
    /\ chat_history = <<>> /\ response_text = <<>> /\ agent_result = <<>>
    /\ http_reply = <<>> /\ transcript = <<>>

AgentAtRest == ToolAtRest /\ ServerAtRest

\* State after the module is loaded (random.seed) and generate_all_data has
\* read the profile document and emptied its four lists.
Init ==
    /\ AgentAtRest
    /\ \E sc \in Scenarios :
          /\ users = sc.users
          /\ date_range = get_date_range(sc.start, sc.end)
    /\ seed \in Seeds
    /\ run = 1
    /\ first_run = <<>>
    /\ rng = Reseed(seed, 1)
    /\ pc = "pair"
    /\ ui = 1 /\ di = 1
    /\ hostname = ""
    /\ work_session = None
    /\ start_variance = 0 /\ end_variance = 0
    /\ breaks = <<>>
    /\ work_duration = 0 /\ num_breaks = 0 /\ coffee_i = 0
    /\ break_duration = 0 /\ attempts = 0
    /\ activities = <<>> /\ current_time = 0 /\ current_app = ""
    /\ statuses = <<>> /\ usage_map = <<>> /\ agg_i = 0 /\ daily_metric = None
    /\ all_window_activities = <<>> /\ all_afk_statuses = <<>>
    /\ all_app_usage = <<>> /\ all_daily_metrics = <<>>
    /\ lp_s = <<>> /\ lp_escaped = <<>>

\* The loops nested the other way round: every user of a date, then the
\* next date.
NextIterationDatesFirst ==
    IF ui < Len(users) THEN pc' = "pair" /\ ui' = ui + 1 /\ di' = di
    ELSE IF di < Len(date_range) THEN pc' = "pair" /\ ui' = 1 /\ di' = di + 1
    ELSE pc' = "done" /\ ui' = ui /\ di' = di

\* The loop header after one (user, date) iteration ends: the next date of
\* the user, else the first date of the next user, else the loops are over.
NextIteration ==
    IF di < Len(date_range) THEN pc' = "pair" /\ ui' = ui /\ di' = di + 1
    ELSE IF ui < Len(users) THEN pc' = "pair" /\ ui' = ui + 1 /\ di' = 1
    ELSE pc' = "done" /\ ui' = ui /\ di' = di

\* --------------------------------------------------- generate_work_session
\* The weekend sub-schedule of the profile for the day, or None.
WeekendSched(profile, day) ==
    Get(Get(profile, "weekend_schedule", [x \in {} |-> None]),
        IF day % 7 = 5 THEN "saturday" ELSE "sunday", None)

\* Whether generate_work_session returns a session (it returns None on a
\* weekend day without the weekend_activity flag or without a sub-schedule).
WorksOn(profile, day) ==
    IF is_weekend(day)
    THEN Get(profile, "weekend_activity", FALSE) /\ WeekendSched(profile, day) # None
    ELSE TRUE

\* generate_work_session with the start offset reused for the end.
generate_work_session_one_offset(profile, day, r) ==
    IF is_weekend(day)
    THEN IF ~WorksOn(profile, day)
         THEN [session |-> None, sv |-> 0, ev |-> 0, rng |-> r]
         ELSE LET weekend_sched == WeekendSched(profile, day)
              IN  [session |-> [start |-> StrpTime(day, weekend_sched.start),
                                end |-> StrpTime(day, weekend_sched.end),
                                is_weekend |-> TRUE],
                   sv |-> 0, ev |-> 0, rng |-> r]
    ELSE LET work_hours == profile.work_hours
             variance == work_hours.variance_minutes
             sv == RandInt(-variance, variance, r)
         IN  [session |-> [start |-> StrpTime(day, work_hours.start) + Minutes(sv),
                           end |-> StrpTime(day, work_hours.end) + Minutes(sv),
                           is_weekend |-> FALSE],
              sv |-> sv, ev |-> sv, rng |-> Skip(r, 2)]

\* generate_work_session(user_profile, date, hostname), with the random
\* stream at r: the session or None, the two offsets added (0 where the
\* code adds none) and the stream after.
generate_work_session(profile, day, r) ==
    IF is_weekend(day)
    THEN IF ~WorksOn(profile, day)
         THEN [session |-> None, sv |-> 0, ev |-> 0, rng |-> r]
         ELSE LET weekend_sched == WeekendSched(profile, day)
              IN  [session |-> [start |-> StrpTime(day, weekend_sched.start),
                                end |-> StrpTime(day, weekend_sched.end),
                                is_weekend |-> TRUE],
                   sv |-> 0, ev |-> 0, rng |-> r]
    ELSE LET work_hours == profile.work_hours
             variance == work_hours.variance_minutes
             sv == RandInt(-variance, variance, r)
             ev == RandInt(-variance, variance, Adv(r))
         IN  [session |-> [start |-> StrpTime(day, work_hours.start) + Minutes(sv),
                           end |-> StrpTime(day, work_hours.end) + Minutes(ev),
                           is_weekend |-> FALSE],
              sv |-> sv, ev |-> ev, rng |-> Skip(r, 2)]

\* generate_all_data, lines 480-487: choose the hostname, generate the work
\* session, and `continue` with the next date when there is none.
NextPair ==
    /\ pc = "pair"
    /\ LET h == user_profile.hostnames[ChoiceIndex(Len(user_profile.hostnames), rng)]
           ws == generate_work_session(user_profile, date, Adv(rng))
       IN  /\ hostname' = h
           /\ work_session' = ws.session
           /\ start_variance' = ws.sv
           /\ end_variance' = ws.ev
           /\ rng' = ws.rng
           /\ IF ws.session = None
              THEN NextIteration
              ELSE pc' = "breaks_lunch" /\ ui' = ui /\ di' = di
    /\ UNCHANGED <<inputs, agent_vars, export_locals, breaks, break_locals, activity_locals, pair_results, outputs>>

\* --------------------------------------------------------- generate_breaks
\* Lines 219-232: the lunch break, only for a work_duration above 4 hours.
LunchBreaks(afk_behavior, session, wd, r) ==
    IF wd > 4 * 3600
    THEN LET lunch_duration == RandInt(afk_behavior.lunch_minutes[1],
                                       afk_behavior.lunch_minutes[2], r)
             lunch_start_offset == RandInt((wd * 3) \div 10, wd \div 2, Adv(r))
             lunch_start == session.start + lunch_start_offset
         IN  [breaks |-> << [start |-> lunch_start,
                             end |-> lunch_start + Minutes(lunch_duration),
                             type |-> "lunch"] >>,
              rng |-> Skip(r, 2)]
    ELSE [breaks |-> <<>>, rng |-> r]

\* generate_breaks, lines 219-235: work_duration, the lunch break and the
\* number of coffee breaks.
BreaksLunch ==
    /\ pc = "breaks_lunch"
    /\ LET afk_behavior == user_profile.afk_behavior
           wd == TdSeconds(work_session.end - work_session.start)
           lunch == LunchBreaks(afk_behavior, work_session, wd, rng)
       IN  /\ work_duration' = wd
           /\ breaks' = lunch.breaks
           /\ num_breaks' = RandInt(afk_behavior.coffee_breaks[1],
                                    afk_behavior.coffee_breaks[2], lunch.rng)
           /\ rng' = Adv(lunch.rng)
    /\ coffee_i' = 0
    /\ pc' = "coffee_for"
    /\ UNCHANGED <<inputs, agent_vars, export_locals, loop, work_session, session_locals, break_duration, attempts,
                   activity_locals, pair_results, outputs>>

\* Lines 236-239: the next requested coffee break draws its duration.
CoffeeFor ==
    /\ pc = "coffee_for"
    /\ coffee_i < num_breaks
    /\ break_duration' = RandInt(user_profile.afk_behavior.break_duration_minutes[1],
                                 user_profile.afk_behavior.break_duration_minutes[2], rng)
    /\ rng' = Adv(rng)
    /\ attempts' = 0
    /\ pc' = "coffee_while"
    /\ UNCHANGED <<inputs, agent_vars, export_locals, loop, work_session, session_locals, breaks, work_duration,
                   num_breaks, coffee_i, activity_locals, pair_results, outputs>>

\* The overlap test against the first accepted break only.
OverlapsFirstOnly(bs, minutes, existing) ==
    /\ existing # <<>>
    /\ bs < existing[1].end /\ bs + Minutes(minutes) > existing[1].start

\* Line 247: the candidate [bs, bs + minutes) overlaps an accepted break.
Overlaps(bs, minutes, existing) ==
    \E i \in 1 .. Len(existing) :
        bs < existing[i].end /\ bs + Minutes(minutes) > existing[i].start

\* Lines 240-258: one placement attempt.  The first draw that overlaps no
\* accepted break is appended and ends the attempts of this coffee break.
CoffeeAttempt ==
    /\ pc = "coffee_while"
    /\ attempts < MaxAttempts
    /\ work_duration - break_duration * 60 >= 0
    /\ LET break_offset == RandInt(0, work_duration - break_duration * 60, rng)
           break_start == work_session.start + break_offset
       IN  IF ~Overlaps(break_start, break_duration, breaks)
           THEN /\ breaks' = Append(breaks, [start |-> break_start,
                                             end |-> break_start + Minutes(break_duration),
                                             type |-> "coffee"])
                /\ coffee_i' = coffee_i + 1
                /\ pc' = "coffee_for"
                /\ attempts' = attempts
           ELSE /\ attempts' = attempts + 1
                /\ UNCHANGED <<breaks, coffee_i, pc>>
    /\ rng' = Adv(rng)
    /\ UNCHANGED <<inputs, agent_vars, export_locals, loop, work_session, session_locals, work_duration, num_breaks,
                   break_duration, activity_locals, pair_results, outputs>>

\* Line 241: random.randint(0, n) with n < 0 raises ValueError, which nothing
\* catches: generate_all_data ends without a result.
CoffeeCrash ==
    /\ pc = "coffee_while"
    /\ attempts < MaxAttempts
    /\ work_duration - break_duration * 60 < 0
    /\ pc' = "crashed"
    /\ UNCHANGED <<inputs, agent_vars, export_locals, rng, loop, work_session, session_locals, breaks, break_locals,
                   activity_locals, pair_results, outputs>>

\* Line 240: the attempts are used up; the coffee break is dropped.
CoffeeGiveUp ==
    /\ pc = "coffee_while"
    /\ attempts >= MaxAttempts
    /\ coffee_i' = coffee_i + 1
    /\ pc' = "coffee_for"
    /\ UNCHANGED <<inputs, agent_vars, export_locals, rng, loop, work_session, session_locals, breaks, work_duration,
                   num_breaks, break_duration, attempts, activity_locals, pair_results,
                   outputs>>

\* x placed behind every element of the sorted s that does not start later.
InsertByStart(s, x) ==
    LET k == Cardinality({i \in 1 .. Len(s) : s[i].start <= x.start})
    IN  SubSeq(s, 1, k) \o <<x>> \o SubSeq(s, k + 1, Len(s))

RECURSIVE SortByStart(_)
\* breaks.sort(key=lambda x: x['start']): a stable sort by start time.
SortByStart(s) ==
    IF s = <<>> THEN <<>>
    ELSE InsertByStart(SortByStart(SubSeq(s, 1, Len(s) - 1)), s[Len(s)])

\* Lines 260-262: every requested coffee break was handled; the breaks are
\* sorted and returned to generate_all_data.
BreaksReturn ==
    /\ pc = "coffee_for"
    /\ coffee_i >= num_breaks
    /\ breaks' = SortByStart(breaks)
    /\ pc' = "activities_init"
    /\ UNCHANGED <<inputs, agent_vars, export_locals, rng, loop, work_session, session_locals, break_locals,
                   activity_locals, pair_results, outputs>>

\* ---------------------------------------------- generate_window_activities
\* Lines 269-274: the three app lists joined, or the fallback.
AllApps(profile) ==
    LET joined == profile.apps.productive \o profile.apps.neutral
                  \o profile.apps.unproductive
    IN  IF joined = <<>> THEN <<"Chrome">> ELSE joined

\* Lines 277-283: weight 3, 2, 1 per productive, neutral, unproductive app.
AppWeights(profile) ==
    [i \in 1 .. Len(profile.apps.productive) |-> 3]
    \o [i \in 1 .. Len(profile.apps.neutral) |-> 2]
    \o [i \in 1 .. Len(profile.apps.unproductive) |-> 1]

\* Twice avg_switches (the sum of the app_switches_per_day range).
SwitchSum(profile) ==
    profile.productivity.app_switches_per_day[1]
    + profile.productivity.app_switches_per_day[2]

\* The event duration drawn from the range of the focused tier, whatever
\* the profile.
DrawDurationFocused(profile, r) == RandInt(180, 900, r)

\* Lines 305-310: the event duration drawn for the switcher tier.
DrawDuration(profile, r) ==
    IF SwitchSum(profile) > 2 * 80 THEN RandInt(30, 180, r)
    ELSE IF SwitchSum(profile) > 2 * 50 THEN RandInt(60, 300, r)
    ELSE RandInt(180, 900, r)

\* Lines 336-337: random.random() < min(0.7, avg_switches / 100)
SwitchDrawn(profile, r) ==
    RandomBelow(Min(140, SwitchSum(profile)), 200, r)

\* get_window_title(app), with the stream at r: the title and the stream after.
get_window_title(app, r) ==
    IF app \in DOMAIN WINDOW_TITLES
    THEN [title |-> WINDOW_TITLES[app][ChoiceIndex(Len(WINDOW_TITLES[app]), r)],
          rng |-> Adv(r)]
    ELSE [title |-> app, rng |-> r]

\* Lines 266-287: random.choices raises ValueError when the weights do not
\* match the population, which nothing catches.
ActivitiesInit ==
    /\ pc = "activities_init"
    /\ LET all_apps == AllApps(user_profile)
           app_weights == AppWeights(user_profile)
       IN  IF Len(app_weights) # Len(all_apps)
           THEN /\ pc' = "crashed"
                /\ UNCHANGED <<rng, activity_locals>>
           ELSE /\ activities' = <<>>
                /\ current_time' = work_session.start
                /\ current_app' = all_apps[ChoicesIndex(app_weights, rng)]
                /\ rng' = Adv(rng)
                /\ pc' = "activities_loop"
    /\ UNCHANGED <<inputs, agent_vars, export_locals, loop, work_session, session_locals, breaks, break_locals,
                   pair_results, outputs>>

\* Indices of the breaks the cursor t is in.
InBreak(t, brks) == {i \in 1 .. Len(brks) : t >= brks[i].start /\ t < brks[i].end}

\* Indices of the breaks that start after the cursor t.
Upcoming(t, brks) == {i \in 1 .. Len(brks) : brks[i].start > t}

\* The first index, in list order, of a non-empty index set.
First(idx) == CHOOSE i \in idx : \A j \in idx : i <= j

\* Lines 291-299: the cursor is in a break and jumps to the end of the first
\* such break of the list.
ActivityBreakJump ==
    /\ pc = "activities_loop"
    /\ current_time < work_session.end
    /\ InBreak(current_time, breaks) # {}
    /\ current_time' = breaks[First(InBreak(current_time, breaks))].end
    /\ UNCHANGED <<inputs, agent_vars, export_locals, rng, pc, loop, work_session, session_locals, breaks, break_locals,
                   activities, current_app, pair_results, outputs>>

\* The drawn duration clipped to the session end only.
ClipDurationToEnd(duration, t, end_time, brks) ==
    Min(duration, TdSeconds(end_time - t))

\* Lines 313-323: the drawn duration clipped to the session end and to the
\* start of the first break of the list that starts after the cursor.
ClipDuration(duration, t, end_time, brks) ==
    LET remaining_time == TdSeconds(end_time - t)
        upcoming == Upcoming(t, brks)
    IN  IF upcoming # {}
        THEN Min(duration, Min(remaining_time,
                               TdSeconds(brks[First(upcoming)].start - t)))
        ELSE Min(duration, remaining_time)

\* Lines 301-338: one event is drawn, clipped and, when its duration is
\* positive, emitted; then the app may switch.
ActivityEvent ==
    /\ pc = "activities_loop"
    /\ current_time < work_session.end
    /\ InBreak(current_time, breaks) = {}
    /\ LET duration == ClipDuration(DrawDuration(user_profile, rng), current_time,
                                    work_session.end, breaks)
           t == get_window_title(current_app, Adv(rng))
       IN  IF duration > 0
           THEN /\ activities' = Append(activities,
                                        [app |-> current_app, title |-> t.title,
                                         duration |-> duration, timestamp |-> current_time])
                /\ current_time' = current_time + duration
                /\ IF SwitchDrawn(user_profile, t.rng)
                   THEN /\ current_app' = AllApps(user_profile)[
                                              ChoicesIndex(AppWeights(user_profile), Adv(t.rng))]
                        /\ rng' = Skip(t.rng, 2)
                   ELSE /\ current_app' = current_app
                        /\ rng' = Adv(t.rng)
           ELSE /\ rng' = Adv(rng)
                /\ UNCHANGED activity_locals
    /\ UNCHANGED <<inputs, agent_vars, export_locals, pc, loop, work_session, session_locals, breaks, break_locals,
                   pair_results, outputs>>

\* Lines 289 and 340: the cursor reached the session end; the activities are
\* returned to generate_all_data.
ActivitiesReturn ==
    /\ pc = "activities_loop"
    /\ current_time >= work_session.end
    /\ pc' = "statuses"
    /\ UNCHANGED <<inputs, agent_vars, export_locals, rng, loop, work_session, session_locals, breaks, break_locals,
                   activity_locals, pair_results, outputs>>

\* --------------------------------------------------- generate_afk_statuses
RECURSIVE WorkSegments(_, _, _, _)
\* Lines 353-364: the work segments between the breaks, interleaved with the
\* breaks in list order; last_end follows the end of the break just handled.
WorkSegments(brks, i, last_end, end_time) ==
    IF i > Len(brks)
    THEN IF last_end < end_time
         THEN << [start |-> last_end, end |-> end_time, type |-> "work"] >>
         ELSE <<>>
    ELSE (IF brks[i].start > last_end
          THEN << [start |-> last_end, end |-> brks[i].start, type |-> "work"] >>
          ELSE <<>>)
         \o << [start |-> brks[i].start, end |-> brks[i].end, type |-> brks[i].type] >>
         \o WorkSegments(brks, i + 1, brks[i].end, end_time)

\* The lunch break counted as a short break: idle below the limit.
SegmentStatusLunchAsCoffee(segment) ==
    LET duration == TotalSeconds(segment.end - segment.start)
    IN  IF segment.type = "work"
        THEN IF duration > 0
             THEN << [status |-> "active", duration |-> duration,
                      timestamp |-> segment.start] >>
             ELSE <<>>
        ELSE IF duration < IdleLimit * 6
        THEN << [status |-> "idle", duration |-> duration, timestamp |-> segment.start] >>
        ELSE << [status |-> "afk", duration |-> duration, timestamp |-> segment.start] >>

\* Lines 367-399: the status events of one segment (none for a work segment
\* without duration).
SegmentStatus(segment) ==
    LET duration == TotalSeconds(segment.end - segment.start)
    IN  IF segment.type = "work"
        THEN IF duration > 0
             THEN << [status |-> "active", duration |-> duration,
                      timestamp |-> segment.start] >>
             ELSE <<>>
        ELSE IF segment.type = "lunch"
        THEN << [status |-> "afk", duration |-> duration, timestamp |-> segment.start] >>
        ELSE IF duration < IdleLimit
        THEN << [status |-> "idle", duration |-> duration, timestamp |-> segment.start] >>
        ELSE << [status |-> "afk", duration |-> duration, timestamp |-> segment.start] >>

RECURSIVE StatusesOf(_)
StatusesOf(segments) ==
    IF segments = <<>> THEN <<>>
    ELSE SegmentStatus(Head(segments)) \o StatusesOf(Tail(segments))

\* No status for a session without a window event.
generate_afk_statuses_of_events(session, brks, acts) ==
    IF acts = <<>> THEN <<>>
    ELSE StatusesOf(WorkSegments(brks, 1, session.start, session.end))

\* generate_afk_statuses(work_session, breaks, activities)
generate_afk_statuses(session, brks, acts) ==
    StatusesOf(WorkSegments(brks, 1, session.start, session.end))

\* ----------------------------------------------------- aggregate_app_usage
\* A bucket stamped with the event's own timestamp.
HourFloorKeepsMinutes(t) == t

\* strftime('%Y-%m-%d %H:00:00') parsed back: the hour floor of a timestamp.
HourFloor(t) == t - (t % 3600)

\* One activity added to the buckets with only the part of its duration
\* that lies in the hour of its start.
AddUsageWithinHour(usage, activity) ==
    LET hour_key == HourFloor(activity.timestamp)
        part == Min(activity.duration, hour_key + 3600 - activity.timestamp)
        hits == {i \in 1 .. Len(usage) :
                   usage[i].hour_key = hour_key /\ usage[i].app = activity.app}
    IN  IF hits = {}
        THEN Append(usage, [hour_key |-> hour_key, app |-> activity.app,
                            duration |-> part, event_count |-> 1,
                            timestamp |-> hour_key])
        ELSE [usage EXCEPT ![First(hits)].duration = @ + part,
                           ![First(hits)].event_count = @ + 1]

\* Lines 408-420: one activity added to the buckets (kept in insertion order).
AddUsage(usage, activity) ==
    LET hour_key == HourFloor(activity.timestamp)
        hits == {i \in 1 .. Len(usage) :
                   usage[i].hour_key = hour_key /\ usage[i].app = activity.app}
    IN  IF hits = {}
        THEN Append(usage, [hour_key |-> hour_key, app |-> activity.app,
                            duration |-> activity.duration, event_count |-> 1,
                            timestamp |-> hour_key])
        ELSE LET k == First(hits)
             IN  SubSeq(usage, 1, k - 1)
                 \o << [hour_key |-> usage[k].hour_key, app |-> usage[k].app,
                        duration |-> usage[k].duration + activity.duration,
                        event_count |-> usage[k].event_count + 1,
                        timestamp |-> usage[k].timestamp] >>
                 \o SubSeq(usage, k + 1, Len(usage))

\* ------------------------------------------------- calculate_daily_metrics
\* The sum of all durations, whatever the status.
SumStatusIgnored(sts, status) == SumSeq([i \in 1 .. Len(sts) |-> sts[i].duration])

RECURSIVE SumStatus(_, _)
\* sum(s['duration'] for s in afk_statuses if s['status'] == status)
SumStatus(sts, status) ==
    IF sts = <<>> THEN 0
    ELSE (IF Head(sts).status = status THEN Head(sts).duration ELSE 0)
         + SumStatus(Tail(sts), status)

\* Lines 434-439: last_app starts as None and a falsy last_app never counts.
AppSwitches(acts) ==
    Cardinality({i \in 2 .. Len(acts) :
                   acts[i - 1].app # "" /\ acts[i - 1].app # acts[i].app})

\* round(num / den, 4) in ten-thousandths, ties to the even neighbour.
Round4(num, den) ==
    LET q == (num * 10000) \div den
        rem == (num * 10000) % den
    IN  IF 2 * rem > den THEN q + 1
        ELSE IF 2 * rem < den THEN q
        ELSE IF q % 2 = 0 THEN q ELSE q + 1

\* A day without presence time counted as fully used.
calculate_daily_metrics_empty_day_full(day, sts, acts) ==
    LET active_seconds == SumStatus(sts, "active")
        idle_seconds == SumStatus(sts, "idle")
        afk_seconds == SumStatus(sts, "afk")
        total_seconds == active_seconds + idle_seconds + afk_seconds
    IN  [date |-> day,
         active_seconds |-> active_seconds,
         idle_seconds |-> idle_seconds,
         afk_seconds |-> afk_seconds,
         app_switches |-> AppSwitches(acts),
         utilization_ratio |-> IF total_seconds > 0
                               THEN Round4(active_seconds, total_seconds) ELSE 10000,
         timestamp |-> day * 86400 + 23 * 3600 + 59 * 60 + 59]

\* The ratio taken of the active time to the time away, not to the total.
calculate_daily_metrics_over_away(day, sts, acts) ==
    LET active_seconds == SumStatus(sts, "active")
        idle_seconds == SumStatus(sts, "idle")
        afk_seconds == SumStatus(sts, "afk")
        away_seconds == idle_seconds + afk_seconds
    IN  [date |-> day,
         active_seconds |-> active_seconds,
         idle_seconds |-> idle_seconds,
         afk_seconds |-> afk_seconds,
         app_switches |-> AppSwitches(acts),
         utilization_ratio |-> IF away_seconds > 0
                               THEN Round4(active_seconds, away_seconds) ELSE 0,
         timestamp |-> day * 86400 + 23 * 3600 + 59 * 60 + 59]

\* calculate_daily_metrics(date, afk_statuses, activities); the ratio is
\* kept in ten-thousandths.
calculate_daily_metrics(day, sts, acts) ==
    LET active_seconds == SumStatus(sts, "active")
        idle_seconds == SumStatus(sts, "idle")
        afk_seconds == SumStatus(sts, "afk")
        total_seconds == active_seconds + idle_seconds + afk_seconds
    IN  [date |-> day,
         active_seconds |-> active_seconds,
         idle_seconds |-> idle_seconds,
         afk_seconds |-> afk_seconds,
         app_switches |-> AppSwitches(acts),
         utilization_ratio |-> IF total_seconds > 0
                               THEN Round4(active_seconds, total_seconds) ELSE 0,
         timestamp |-> day * 86400 + 23 * 3600 + 59 * 60 + 59]

\* ------------------------------------------------------- generate_all_data
\* Lines 505-528: the records of one (user, date) pair, per kind.
WindowActivityRecords(username, host, acts) ==
    [i \in 1 .. Len(acts) |->
        [user |-> username, hostname |-> host, app |-> acts[i].app,
         title |-> acts[i].title, duration |-> acts[i].duration,
         timestamp |-> acts[i].timestamp]]

AfkStatusRecords(username, host, sts) ==
    [i \in 1 .. Len(sts) |->
        [user |-> username, hostname |-> host, status |-> sts[i].status,
         duration |-> sts[i].duration, timestamp |-> sts[i].timestamp]]

AppUsageRecords(username, host, usage) ==
    [i \in 1 .. Len(usage) |->
        [user |-> username, hostname |-> host, app_name |-> usage[i].app,
         duration_seconds |-> usage[i].duration, event_count |-> usage[i].event_count,
         timestamp |-> usage[i].timestamp]]

DailyMetricRecord(username, host, m) ==
    [user |-> username, hostname |-> host, date |-> m.date,
     active_seconds |-> m.active_seconds, idle_seconds |-> m.idle_seconds,
     afk_seconds |-> m.afk_seconds, app_switches |-> m.app_switches,
     utilization_ratio |-> m.utilization_ratio, timestamp |-> m.timestamp]

\* The breaks taken off the caller's list while the segments are built.
AfkStatusesDrainsBreaks ==
    /\ pc = "statuses"
    /\ statuses' = generate_afk_statuses(work_session, breaks, activities)
    /\ breaks' = <<>>
    /\ usage_map' = <<>>
    /\ agg_i' = 0
    /\ pc' = "aggregate"
    /\ UNCHANGED <<inputs, agent_vars, export_locals, rng, loop, work_session, session_locals,
                   break_locals, activity_locals, daily_metric, outputs>>

\* Line 496: the presence statuses of the pair; then aggregate_app_usage
\* starts with no bucket (line 405).
AfkStatuses ==
    /\ pc = "statuses"
    /\ statuses' = generate_afk_statuses(work_session, breaks, activities)
    /\ usage_map' = <<>>
    /\ agg_i' = 0
    /\ pc' = "aggregate"
    /\ UNCHANGED <<inputs, agent_vars, export_locals, rng, loop, work_session, session_locals, breaks, break_locals,
                   activity_locals, daily_metric, outputs>>

\* aggregate_app_usage, lines 407-420: the next activity is added to its bucket.
AggregateStep ==
    /\ pc = "aggregate"
    /\ agg_i < Len(activities)
    /\ usage_map' = AddUsage(usage_map, activities[agg_i + 1])
    /\ agg_i' = agg_i + 1
    /\ UNCHANGED <<inputs, agent_vars, export_locals, rng, pc, loop, work_session, session_locals, breaks, break_locals,
                   activity_locals, statuses, daily_metric, outputs>>

\* The daily metric appended only for a day with window events.
EmitMetricOnlyWithEvents ==
    /\ pc = "aggregate"
    /\ agg_i >= Len(activities)
    /\ LET metric == calculate_daily_metrics(date, statuses, activities)
       IN  /\ daily_metric' = metric
           /\ all_window_activities' = all_window_activities
                  \o WindowActivityRecords(user_profile.username, hostname, activities)
           /\ all_afk_statuses' = all_afk_statuses
                  \o AfkStatusRecords(user_profile.username, hostname, statuses)
           /\ all_app_usage' = all_app_usage
                  \o AppUsageRecords(user_profile.username, hostname, usage_map)
           /\ all_daily_metrics' =
                  IF activities = <<>> THEN all_daily_metrics
                  ELSE Append(all_daily_metrics,
                              DailyMetricRecord(user_profile.username, hostname, metric))
    /\ NextIteration
    /\ UNCHANGED <<inputs, agent_vars, export_locals, rng, hostname, work_session, session_locals,
                   breaks, break_locals, activity_locals, statuses, usage_map, agg_i>>

\* Lines 499-528: the buckets are returned, the daily metric is computed
\* and the records of the pair are appended to the four lists.
Emit ==
    /\ pc = "aggregate"
    /\ agg_i >= Len(activities)
    /\ LET metric == calculate_daily_metrics(date, statuses, activities)
       IN  /\ daily_metric' = metric
           /\ all_window_activities' = all_window_activities
                  \o WindowActivityRecords(user_profile.username, hostname, activities)
           /\ all_afk_statuses' = all_afk_statuses
                  \o AfkStatusRecords(user_profile.username, hostname, statuses)
           /\ all_app_usage' = all_app_usage
                  \o AppUsageRecords(user_profile.username, hostname, usage_map)
           /\ all_daily_metrics' = Append(all_daily_metrics,
                  DailyMetricRecord(user_profile.username, hostname, metric))
    /\ NextIteration
    /\ UNCHANGED <<inputs, agent_vars, export_locals, rng, hostname, work_session, session_locals, breaks, break_locals,
                   activity_locals, statuses, usage_map, agg_i>>

\* ------------------------------------------------------------ specification
Next ==
    \/ NextPair
    \/ BreaksLunch
    \/ CoffeeFor
    \/ CoffeeAttempt
    \/ CoffeeCrash
    \/ CoffeeGiveUp
    \/ BreaksReturn
    \/ ActivitiesInit
    \/ ActivityBreakJump
    \/ ActivityEvent
    \/ ActivitiesReturn
    \/ AfkStatuses
    \/ AggregateStep
    \/ Emit

Spec == Init /\ [][Next]_vars

\* ------------------------------------- generate_window_activities, called
\* Sorted break lists that do not overlap, for a session: a coffee break,
\* a break of no length that starts where it ends, and a lunch break that
\* ends after the session.
CandidateBreaks(session) ==
    << [start |-> session.start + 300, end |-> session.start + 480, type |-> "coffee"],
       [start |-> session.start + 480, end |-> session.start + 480, type |-> "coffee"],
       [start |-> session.start + 900, end |-> session.end + 600, type |-> "lunch"] >>

BreakLists(session) ==
    LET c == CandidateBreaks(session)
    IN  { <<>>, <<c[1]>>, <<c[2]>>, <<c[3]>>, <<c[1], c[2]>>, <<c[1], c[3]>>,
          <<c[2], c[3]>>, c }

LoopProfiles == {Bob, Ivan}

\* generate_window_activities is about to be called on a session that
\* generate_work_session returned for a Monday and on a sorted break list
\* without overlaps (no break for the sessions of more than an hour).
InitLoop ==
    /\ AgentAtRest
    /\ \E p \in LoopProfiles, r \in Seeds :
          LET ws == generate_work_session(p, 0, r)
          IN  /\ users = <<p>>
              /\ seed = r
              /\ rng = ws.rng
              /\ hostname = p.hostnames[1]
              /\ work_session = ws.session
              /\ start_variance = ws.sv /\ end_variance = ws.ev
              /\ breaks \in IF ws.session.end - ws.session.start > 3600
                            THEN {<<>>}
                            ELSE BreakLists(ws.session)
    /\ date_range = get_date_range(0, 0)
    /\ run = 1 /\ first_run = <<>>
    /\ ui = 1 /\ di = 1
    /\ work_duration = 0 /\ num_breaks = 0 /\ coffee_i = 0
    /\ break_duration = 0 /\ attempts = 0
    /\ activities = <<>> /\ current_time = 0 /\ current_app = ""
    /\ statuses = <<>> /\ usage_map = <<>> /\ agg_i = 0 /\ daily_metric = None
    /\ all_window_activities = <<>> /\ all_afk_statuses = <<>>
    /\ all_app_usage = <<>> /\ all_daily_metrics = <<>>
    /\ lp_s = <<>> /\ lp_escaped = <<>>
    /\ pc = "activities_init"

NextLoop ==
    \/ ActivitiesInit
    \/ ActivityBreakJump
    \/ ActivityEvent
    \/ ActivitiesReturn

\* The interpreter keeps running the function: a step that can be taken is
\* eventually taken.
SpecLoop == InitLoop /\ [][NextLoop]_vars /\ WF_vars(NextLoop)

\* The program is started a second time, on the same profile document and
\* with the same seed, after a first run that returned its four lists.
Rerun ==
    /\ pc = "done"
    /\ run = 1
    /\ run' = 2
    /\ first_run' = outputs
    /\ rng' = Reseed(seed, 2)
    /\ pc' = "pair"
    /\ ui' = 1 /\ di' = 1
    /\ hostname' = ""
    /\ work_session' = None
    /\ start_variance' = 0 /\ end_variance' = 0
    /\ breaks' = <<>>
    /\ work_duration' = 0 /\ num_breaks' = 0 /\ coffee_i' = 0
    /\ break_duration' = 0 /\ attempts' = 0
    /\ activities' = <<>> /\ current_time' = 0 /\ current_app' = ""
    /\ statuses' = <<>> /\ usage_map' = <<>> /\ agg_i' = 0 /\ daily_metric' = None
    /\ all_window_activities' = <<>> /\ all_afk_statuses' = <<>>
    /\ all_app_usage' = <<>> /\ all_daily_metrics' = <<>>
    /\ UNCHANGED <<users, date_range, seed, export_locals, agent_vars>>

SpecTwoRuns == Init /\ [][Next \/ Rerun]_vars

\* --------------------------------------- the reporting functions on their own
\* Sequences over S of length 0 .. n.
SeqUpTo(S, n) == UNION {[1 .. k -> S] : k \in 0 .. n}

\* The presence-segment lists handed to calculate_daily_metrics: every status,
\* with durations of 0 seconds and more.
StatusLists ==
    SeqUpTo([status : {"active", "idle", "afk"}, duration : {0, 600},
             timestamp : {9 * 3600}], MaxStatuses)

\* The app names of the event lists, the empty name included.
AppNames == {"", "Chrome", "Slack"}

\* Chronological event lists: one event per app name of the sequence, each
\* of 40 minutes, the first at 09:00.
EventsOf(apps) ==
    [i \in 1 .. Len(apps) |->
        [app |-> apps[i], title |-> apps[i], duration |-> 2400,
         timestamp |-> 9 * 3600 + 2400 * (i - 1)]]

EventLists == {EventsOf(apps) : apps \in SeqUpTo(AppNames, MaxEvents)}

\* generate_data.py has not been started: its variables hold what the
\* module holds when loaded.
GeneratorAtRest ==
    /\ users = <<Hank>>
    /\ date_range = get_date_range(2, 2)
    /\ seed = 0 /\ run = 1 /\ first_run = <<>>
    /\ rng = Reseed(0, 1)
    /\ ui = 1 /\ di = 1
    /\ hostname = ""
    /\ work_session = None
    /\ start_variance = 0 /\ end_variance = 0
    /\ breaks = <<>>
    /\ work_duration = 0 /\ num_breaks = 0 /\ coffee_i = 0
    /\ break_duration = 0 /\ attempts = 0
    /\ current_time = 0 /\ current_app = ""
    /\ usage_map = <<>> /\ agg_i = 0 /\ daily_metric = None
    /\ all_window_activities = <<>> /\ all_afk_statuses = <<>>
    /\ all_app_usage = <<>> /\ all_daily_metrics = <<>>

\* The state of a caller that has built the arguments of one of the
\* reporting functions itself: nothing of generate_all_data has run.
CallerFrame ==
    /\ AgentAtRest
    /\ GeneratorAtRest

\* calculate_daily_metrics is about to be called on a segment list and an
\* event list.
InitMetrics ==
    /\ CallerFrame
    /\ lp_s = <<>> /\ lp_escaped = <<>>
    /\ statuses \in StatusLists
    /\ activities \in EventLists
    /\ pc = "metrics_call"

\* calculate_daily_metrics(date, afk_statuses, activities) returns.
MetricsCall ==
    /\ pc = "metrics_call"
    /\ daily_metric' = calculate_daily_metrics(date, statuses, activities)
    /\ pc' = "metrics_returned"
    /\ UNCHANGED <<inputs, agent_vars, export_locals, rng, loop, work_session, session_locals, breaks, break_locals,
                   activity_locals, statuses, usage_map, agg_i, outputs>>

NextMetrics == MetricsCall

SpecMetrics == InitMetrics /\ [][NextMetrics]_vars

\* The event lists handed to aggregate_app_usage: in any order, in two hours
\* of the day, some events crossing into the next hour.
UsageEvents ==
    [app : {"Chrome", "Slack"}, title : {"t"}, duration : {60, 1200},
     timestamp : {9 * 3600 + 600, 9 * 3600 + 3000, 10 * 3600 + 300}]

\* aggregate_app_usage is about to be called on an event list.
InitAggregate ==
    /\ CallerFrame
    /\ lp_s = <<>> /\ lp_escaped = <<>>
    /\ statuses = <<>>
    /\ activities \in SeqUpTo(UsageEvents, MaxEvents)
    /\ pc = "aggregate"

\* Line 422: the loop is over, aggregate_app_usage returns its buckets.
AggregateReturn ==
    /\ pc = "aggregate"
    /\ agg_i >= Len(activities)
    /\ pc' = "aggregated"
    /\ UNCHANGED <<inputs, agent_vars, export_locals, rng, loop, work_session, session_locals, breaks, break_locals,
                   activity_locals, pair_results, outputs>>

NextAggregate ==
    \/ AggregateStep
    \/ AggregateReturn

SpecAggregate == InitAggregate /\ [][NextAggregate]_vars

\* ------------------------------------------------- line-protocol escaping
\* A string is a sequence of characters.  The characters of the tag values:
\* the three that end a tag value, the backslash and an ordinary one.
TagChars == {",", "=", " ", "\\", "a"}

RECURSIVE Replace(_, _, _)
\* s.replace(old, new) for a one-character old: every occurrence, left to right.
Replace(str, old, new) ==
    IF str = <<>> THEN <<>>
    ELSE (IF Head(str) = old THEN new ELSE <<Head(str)>>) \o Replace(Tail(str), old, new)

\* escape_lp_tag(s): s.replace(',', '\\,').replace('=', '\\=').replace(' ', '\\ ')
escape_lp_tag(str) ==
    Replace(Replace(Replace(str, ",", <<"\\", ",">>), "=", <<"\\", "=">>),
            " ", <<"\\", " ">>)

\* escape_lp_tag is about to be called on a tag value.
InitTag ==
    /\ CallerFrame
    /\ statuses = <<>> /\ activities = <<>>
    /\ lp_s \in SeqUpTo(TagChars, MaxLen)
    /\ lp_escaped = <<>>
    /\ pc = "escape_tag"

\* escape_lp_tag(s) returns.
EscapeTag ==
    /\ pc = "escape_tag"
    /\ lp_escaped' = escape_lp_tag(lp_s)
    /\ pc' = "tag_escaped"
    /\ UNCHANGED <<inputs, agent_vars, lp_s, rng, loop, work_session, session_locals, breaks,
                   break_locals, activity_locals, pair_results, outputs>>

NextTag == EscapeTag

SpecTag == InitTag /\ [][NextTag]_vars

\* The characters of the string fields: the double quote, the backslash and
\* two ordinary ones.
StringChars == {"\"", "\\", "a", " "}

\* The double quote escaped before the backslash.
escape_lp_string_quote_first(str) ==
    <<"\"">> \o Replace(Replace(str, "\"", <<"\\", "\"">>), "\\", <<"\\", "\\">>)
    \o <<"\"">>

\* escape_lp_string(s): '"' + s.replace('\\', '\\\\').replace('"', '\\"') + '"'
escape_lp_string(str) ==
    <<"\"">> \o Replace(Replace(str, "\\", <<"\\", "\\">>), "\"", <<"\\", "\"">>)
    \o <<"\"">>

\* escape_lp_string is about to be called on a title.
InitString ==
    /\ CallerFrame
    /\ statuses = <<>> /\ activities = <<>>
    /\ lp_s \in SeqUpTo(StringChars, MaxLen)
    /\ lp_escaped = <<>>
    /\ pc = "escape_string"

\* escape_lp_string(s) returns.
EscapeString ==
    /\ pc = "escape_string"
    /\ lp_escaped' = escape_lp_string(lp_s)
    /\ pc' = "string_escaped"
    /\ UNCHANGED <<inputs, agent_vars, lp_s, rng, loop, work_session, session_locals, breaks,
                   break_locals, activity_locals, pair_results, outputs>>

NextString == EscapeString

SpecString == InitString /\ [][NextString]_vars

\* ------------------------------------------------------- backend_client.py
\* JSON values of a `result` field: null, strings, lists of numbers, objects
\* with number fields, a number and a boolean.
JsonValues ==
    { [t |-> "null"],
      [t |-> "str", s |-> "null"], [t |-> "str", s |-> ""],
      [t |-> "str", s |-> "no data"], [t |-> "str", s |-> "[{\"app\": \"Chrome\"}]"],
      [t |-> "list", items |-> <<>>], [t |-> "list", items |-> <<1, 2>>],
      [t |-> "obj", pairs |-> <<>>],
      [t |-> "obj", pairs |-> << <<"count", 3>>, <<"hours", 7>> >>],
      [t |-> "num", n |-> 0], [t |-> "bool", b |-> FALSE] }

RECURSIVE JoinItems(_)
\* json.dumps: the items of a list of numbers, separated by ", ".
JoinItems(items) ==
    IF items = <<>> THEN ""
    ELSE IF Len(items) = 1 THEN ToString(items[1])
    ELSE ToString(items[1]) \o ", " \o JoinItems(Tail(items))

RECURSIVE JoinPairs(_)
\* json.dumps: the members of an object with number fields.
JoinPairs(pairs) ==
    IF pairs = <<>> THEN ""
    ELSE "\"" \o pairs[1][1] \o "\": " \o ToString(pairs[1][2])
         \o (IF Len(pairs) = 1 THEN "" ELSE ", " \o JoinPairs(Tail(pairs)))

\* json.dumps(value)
JsonDumps(value) ==
    IF value.t = "null" THEN "null"
    ELSE IF value.t = "str" THEN "\"" \o value.s \o "\""
    ELSE IF value.t = "list" THEN "[" \o JoinItems(value.items) \o "]"
    ELSE IF value.t = "obj" THEN "{" \o JoinPairs(value.pairs) \o "}"
    ELSE IF value.t = "num" THEN ToString(value.n)
    ELSE IF value.b THEN "true" ELSE "false"

\* The JSON objects a response body can hold: with or without a result, and
\* the error objects of the backend, with a message, an error, or both.
JsonObjects ==
    {[x \in {} |-> None]}
    \cup {[result |-> v] : v \in JsonValues}
    \cup {[message |-> "tool not found"], [error |-> "bad request"],
          [message |-> "", error |-> "bad request"],
          [message |-> "tool not found", error |-> "bad request"]}

\* Response bodies: not JSON, JSON that is not an object, a JSON object.
Bodies ==
    {[json |-> FALSE, text |-> "Bad Gateway"], [json |-> TRUE, object |-> FALSE]}
    \cup {[json |-> TRUE, object |-> TRUE, data |-> d] : d \in JsonObjects}

\* What requests.post does: it returns a response, or raises a
\* RequestException that may carry a response.
Replies ==
    {[kind |-> "response", ok |-> st < 400, status_code |-> st, body |-> b] :
        st \in {200, 404, 500}, b \in Bodies}
    \cup {[kind |-> "exception", str |-> m, response |-> None] :
            m \in {"Read timed out.", "Connection refused"}}
    \cup {[kind |-> "exception", str |-> "Exceeded 30 redirects.",
           response |-> [body |-> b]] :
            b \in {[json |-> FALSE, text |-> "Moved"], [json |-> TRUE, object |-> FALSE],
                   [json |-> TRUE, object |-> TRUE, data |-> [message |-> "loop"]]}}

Returned(value) == [kind |-> "return", value |-> value]
Raised(type, message) == [kind |-> "raise", type |-> type, message |-> message]

\* Exception(f"Failed to execute tool '{tool_name}': {detail}"), the message
\* kept in its parts.
FailedToExecute(name, detail) ==
    Raised("Exception", <<"Failed to execute tool '", name, "': ", detail>>)

\* data.get(...) on parsed JSON that is not an object.
NoGetAttribute ==
    Raised("AttributeError", <<"'list' object has no attribute 'get'">>)

\* error_data.get("message") or error_data.get("error", default)
ErrorMessage(data, default) ==
    IF "message" \in DOMAIN data /\ data.message # "" THEN data.message
    ELSE IF "error" \in DOMAIN data THEN data.error
    ELSE default

\* execute_tool(tool_name, params) for what requests.post does.  A body
\* that is not JSON makes response.json() raise a JSONDecodeError, which is
\* a ValueError and, from requests 2.27 on, a RequestException as well.
execute_tool(name, reply, json_error_is_request_exception) ==
    IF reply.kind = "exception"
    THEN IF reply.response = None
         THEN FailedToExecute(name, reply.str)
         ELSE LET b == reply.response.body
              IN  IF ~b.json
                  THEN FailedToExecute(name, reply.str \o " - Response: " \o b.text)
                  ELSE IF ~b.object THEN NoGetAttribute
                  ELSE FailedToExecute(name, reply.str \o " - "
                                               \o ErrorMessage(b.data, reply.str))
    ELSE LET b == reply.body
         IN  IF ~reply.ok
             THEN IF ~b.json
                  THEN FailedToExecute(name, ToString(reply.status_code) \o " " \o b.text)
                  ELSE IF ~b.object THEN NoGetAttribute
                  ELSE FailedToExecute(name,
                           ErrorMessage(b.data, "HTTP " \o ToString(reply.status_code)))
             ELSE IF ~b.json
                  THEN IF json_error_is_request_exception
                       THEN FailedToExecute(name, "Expecting value: line 1 column 1 (char 0)")
                       ELSE Raised("JSONDecodeError",
                                   <<"Expecting value: line 1 column 1 (char 0)">>)
                  ELSE IF ~b.object THEN NoGetAttribute
                  ELSE IF "result" \notin DOMAIN b.data THEN Returned("[]")
                  ELSE LET result == b.data.result
                       IN  IF result.t = "null" THEN Returned("[]")
                           ELSE IF result.t = "str"
                           THEN IF result.s \in {"null", ""} THEN Returned("[]")
                                ELSE Returned(result.s)
                           ELSE Returned(JsonDumps(result))

\* execute_tool is about to be called; requests.post will answer with one
\* of the replies.
InitTool ==
    /\ GeneratorAtRest
    /\ statuses = <<>> /\ activities = <<>>
    /\ lp_s = <<>> /\ lp_escaped = <<>>
    /\ ServerAtRest
    /\ tool_name \in {"get_app_usage", "get_daily_metrics"}
    /\ tool_reply \in Replies
    /\ tool_outcome = None
    /\ pc = "execute_tool"

\* execute_tool returns or raises.
ExecuteTool ==
    /\ pc = "execute_tool"
    /\ \E json_error_is_request_exception \in BOOLEAN :
          tool_outcome' = execute_tool(tool_name, tool_reply,
                                       json_error_is_request_exception)
    /\ pc' = "tool_done"
    /\ UNCHANGED <<inputs, rng, loop, work_session, session_locals, breaks, break_locals,
                   activity_locals, pair_results, outputs, export_locals,
                   tool_name, tool_reply, server_vars>>

NextTool == ExecuteTool

SpecTool == InitTool /\ [][NextTool]_vars

\* ------------------------------------------------------------- server.py
\* Flask serves each request on a thread of its own (app.run, threaded by
\* default); two handler threads are modelled.
Threads == {1, 2}

\* Requests the server receives in one behaviour.
MaxRequests == 2

\* "keep last 20 messages"
HistoryCap == 20

SessionIds == {"s1", "s2"}
ApiKeys == {"k1", "k2"}

\* Values of the fields of the request's JSON body: null (or absent, which
\* data.get turns into None), a number, or a string. A string is kept as
\* its text without the surrounding whitespace, and whether it had any.
Null == [t |-> "null"]
Num == [t |-> "num", n |-> 7]
Text(pad, s) == [t |-> "str", pad |-> pad, s |-> s]

\* not v
Falsy(v) == v.t = "null" \/ (v.t = "str" /\ ~v.pad /\ v.s = "")

\* isinstance(v, str)
IsStr(v) == v.t = "str"

\* v.strip()
Strip(v) == v.s

\* The text of the n-th request received.
Msg(n) == "message " \o ToString(n)

ChatInputs(n) ==
    {Null, Num, Text(FALSE, ""), Text(TRUE, ""), Text(TRUE, Msg(n))}

SessionInputs == {Null, Num} \cup {Text(FALSE, s) : s \in SessionIds}

KeyInputs ==
    {Null, Text(TRUE, ""), Text(TRUE, "k1")} \cup {Text(FALSE, k) : k \in ApiKeys}

\* request.json of the n-th request; apiKey is
\* data.get("geminiApiKey") or data.get("openaiApiKey").
Requests(n) ==
    [chatInput : ChatInputs(n), sessionId : SessionInputs, apiKey : KeyInputs]

NoRequest == [chatInput |-> Null, sessionId |-> Null, apiKey |-> Null]

HumanMessage(content) == [type |-> "human", content |-> content]
AIMessage(content) == [type |-> "ai", content |-> content]

\* jsonify(body), status
NoReply == [status |-> 0]
JsonReply(status, body) == [status |-> status, body |-> body]
ErrorReply(status, message) == JsonReply(status, [error |-> message])

\* d[k] = v on a dict
Put(d, k, v) == [x \in DOMAIN d \cup {k} |-> IF x = k THEN v ELSE d[x]]

\* What agent_executor.invoke does with a message: it returns a dict with
\* the output, a dict without one, or raises.
InvokeOutcomes(message) ==
    { Returned([output |-> "reply to " \o message]),
      Returned([steps |-> 0]),
      Raised("Exception", "model overloaded") }

\* process_message with the invocation raising passed on to the caller.
process_message_reraises(outcome) ==
    IF outcome.kind = "raise"
    THEN outcome
    ELSE IF "output" \in DOMAIN outcome.value
         THEN Returned(outcome.value.output)
         ELSE Returned("No response generated")

\* process_message, given what agent_executor.invoke did.
process_message(outcome) ==
    IF outcome.kind = "raise"
    THEN Returned("Error processing message: " \o outcome.message)
    ELSE IF "output" \in DOMAIN outcome.value
         THEN Returned(outcome.value.output)
         ELSE Returned("No response generated")

\* The first HistoryCap messages of a history.
KeepFirst(history) ==
    IF Len(history) > HistoryCap THEN SubSeq(history, 1, HistoryCap) ELSE history

\* chat_history[-20:]
KeepLast(history) ==
    IF Len(history) > HistoryCap
    THEN SubSeq(history, Len(history) - HistoryCap + 1, Len(history))
    ELSE history

\* Everything that is not the server's.
outside_server == <<inputs, rng, pc, loop, work_session, session_locals, breaks,
                    break_locals, activity_locals, pair_results, outputs,
                    export_locals, tool_vars>>

\* The handler of thread t returns: the reply is sent and its frame is gone.
Return(t, reply) ==
    /\ http_reply' = [http_reply EXCEPT ![t] = reply]
    /\ tpc' = [tpc EXCEPT ![t] = "idle"]
    /\ request' = [request EXCEPT ![t] = NoRequest]
    /\ agent_executor' = [agent_executor EXCEPT ![t] = 0]
    /\ chat_history' = [chat_history EXCEPT ![t] = 0]
    /\ response_text' = [response_text EXCEPT ![t] = ""]
    /\ agent_result' = [agent_result EXCEPT ![t] = None]

\* The handler of thread t moves to another line.
Goto(t, line) == tpc' = [tpc EXCEPT ![t] = line]

\* The session id and the API key the handler of thread t works with.
session_id(t) == request[t].sessionId.s
api_key(t) == Strip(request[t].apiKey)

\* POST /api/chat arrives and chat() reads the body.
Receive(t) ==
    /\ tpc[t] = "idle"
    /\ received < MaxRequests
    /\ received' = received + 1
    /\ \E r \in Requests(received + 1) :
          request' = [request EXCEPT ![t] = r]
    /\ http_reply' = [http_reply EXCEPT ![t] = NoReply]
    /\ Goto(t, "validate")
    /\ UNCHANGED <<outside_server, server_globals, agent_executor, chat_history,
                   response_text, agent_result, transcript>>

\* The three validations.
Validate(t) ==
    /\ tpc[t] = "validate"
    /\ LET chat_input == request[t].chatInput
           sid == request[t].sessionId
           key == request[t].apiKey
       IN  IF Falsy(chat_input) \/ ~IsStr(chat_input) \/ Strip(chat_input) = ""
           THEN Return(t, ErrorReply(400,
                    "chatInput is required and must be a non-empty string"))
           ELSE IF Falsy(sid) \/ ~IsStr(sid)
           THEN Return(t, ErrorReply(400,
                    "sessionId is required and must be a string"))
           ELSE IF Falsy(key) \/ ~IsStr(key) \/ Strip(key) = ""
           THEN Return(t, ErrorReply(400,
                    "geminiApiKey is required and must be a non-empty string"))
           ELSE /\ Goto(t, "get_agent")
                /\ UNCHANGED <<handler_locals, http_reply>>
    /\ UNCHANGED <<outside_server, server_globals, received, transcript>>

\* get_or_create_agent: the cached agent if there is one.
GetAgent(t) ==
    /\ tpc[t] = "get_agent"
    /\ IF api_key(t) \in DOMAIN agent_cache
       THEN /\ agent_executor' =
                   [agent_executor EXCEPT ![t] = agent_cache[api_key(t)]]
            /\ Goto(t, "session_lookup")
       ELSE /\ Goto(t, "create_agent")
            /\ UNCHANGED agent_executor
    /\ UNCHANGED <<outside_server, server_globals, received, request, chat_history,
                   response_text, agent_result, http_reply, transcript>>

\* The session entry made before the agent is created: a failed creation
\* leaves the new entry behind.
CreateAgentAfterSession(t) ==
    /\ tpc[t] = "create_agent"
    /\ \E created \in BOOLEAN :
          IF created
          THEN /\ agents_made' = agents_made + 1
               /\ agent_executor' = [agent_executor EXCEPT ![t] = agents_made + 1]
               /\ Goto(t, "store_agent")
               /\ UNCHANGED <<request, chat_history, response_text, agent_result,
                              http_reply, chat_sessions, lists>>
          ELSE /\ Return(t, ErrorReply(500, "Failed to initialize agent: invalid key"))
               /\ lists' = Append(lists, <<>>)
               /\ chat_sessions' = Put(chat_sessions, session_id(t), Len(lists) + 1)
               /\ UNCHANGED agents_made
    /\ UNCHANGED <<outside_server, agent_cache, received, transcript>>

\* get_or_create_agent: create_agent returns a new agent or raises, and
\* chat() answers the exception with a 500.
CreateAgent(t) ==
    /\ tpc[t] = "create_agent"
    /\ \E created \in BOOLEAN :
          IF created
          THEN /\ agents_made' = agents_made + 1
               /\ agent_executor' = [agent_executor EXCEPT ![t] = agents_made + 1]
               /\ Goto(t, "store_agent")
               /\ UNCHANGED <<request, chat_history, response_text, agent_result,
                              http_reply>>
          ELSE /\ Return(t, ErrorReply(500, "Failed to initialize agent: invalid key"))
               /\ UNCHANGED agents_made
    /\ UNCHANGED <<outside_server, chat_sessions, agent_cache, lists, received,
                   transcript>>

\* get_or_create_agent: agent_cache[api_key] = agent_executor
StoreAgent(t) ==
    /\ tpc[t] = "store_agent"
    /\ agent_cache' = Put(agent_cache, api_key(t), agent_executor[t])
    /\ Goto(t, "session_lookup")
    /\ UNCHANGED <<outside_server, chat_sessions, lists, agents_made, received,
                   handler_locals, http_reply, transcript>>

\* if session_id not in chat_sessions:
SessionLookup(t) ==
    /\ tpc[t] = "session_lookup"
    /\ IF session_id(t) \in DOMAIN chat_sessions
       THEN Goto(t, "history_ref")
       ELSE Goto(t, "session_create")
    /\ UNCHANGED <<outside_server, server_globals, received, handler_locals,
                   http_reply, transcript>>

\* chat_sessions[session_id] = []
SessionCreate(t) ==
    /\ tpc[t] = "session_create"
    /\ lists' = Append(lists, <<>>)
    /\ chat_sessions' = Put(chat_sessions, session_id(t), Len(lists) + 1)
    /\ Goto(t, "history_ref")
    /\ UNCHANGED <<outside_server, agent_cache, agents_made, received,
                   handler_locals, http_reply, transcript>>

\* chat_history = chat_sessions[session_id]; a KeyError is answered by the
\* outer handler with a 500.
HistoryRef(t) ==
    /\ tpc[t] = "history_ref"
    /\ IF session_id(t) \in DOMAIN chat_sessions
       THEN /\ chat_history' =
                   [chat_history EXCEPT ![t] = chat_sessions[session_id(t)]]
            /\ Goto(t, "invoke")
            /\ UNCHANGED <<request, agent_executor, response_text, agent_result,
                           http_reply>>
       ELSE Return(t, ErrorReply(500, session_id(t)))
    /\ UNCHANGED <<outside_server, server_globals, received, transcript>>

\* process_message: agent_executor.invoke(input_dict)
Invoke(t) ==
    /\ tpc[t] = "invoke"
    /\ \E outcome \in InvokeOutcomes(Strip(request[t].chatInput)) :
          agent_result' = [agent_result EXCEPT ![t] = outcome]
    /\ Goto(t, "process_message")
    /\ UNCHANGED <<outside_server, server_globals, received, request, agent_executor,
                   chat_history, response_text, http_reply, transcript>>

\* response_text = process_message(...); an exception leaving it is
\* answered with a 500.
ProcessMessage(t) ==
    /\ tpc[t] = "process_message"
    /\ LET outcome == process_message(agent_result[t])
       IN  IF outcome.kind = "raise"
           THEN Return(t, ErrorReply(500,
                    "Error processing message: " \o outcome.message))
           ELSE /\ response_text' = [response_text EXCEPT ![t] = outcome.value]
                /\ Goto(t, "append_human")
                /\ UNCHANGED <<request, agent_executor, chat_history, agent_result,
                               http_reply>>
    /\ UNCHANGED <<outside_server, server_globals, received, transcript>>

\* chat_history.append(HumanMessage(content=chat_input.strip()))
AppendHuman(t) ==
    /\ tpc[t] = "append_human"
    /\ lists' = [lists EXCEPT ![chat_history[t]] =
                    Append(@, HumanMessage(Strip(request[t].chatInput)))]
    /\ Goto(t, "append_ai")
    /\ UNCHANGED <<outside_server, chat_sessions, agent_cache, agents_made, received,
                   handler_locals, http_reply, transcript>>

\* chat_history.append(AIMessage(content=response_text))
AppendAI(t) ==
    /\ tpc[t] = "append_ai"
    /\ lists' = [lists EXCEPT ![chat_history[t]] =
                    Append(@, AIMessage(response_text[t]))]
    /\ Goto(t, "trim")
    /\ UNCHANGED <<outside_server, chat_sessions, agent_cache, agents_made, received,
                   handler_locals, http_reply, transcript>>

\* if len(chat_history) > 20: chat_history = chat_history[-20:]
Trim(t) ==
    /\ tpc[t] = "trim"
    /\ IF Len(lists[chat_history[t]]) > HistoryCap
       THEN /\ lists' = Append(lists, KeepLast(lists[chat_history[t]]))
            /\ chat_history' = [chat_history EXCEPT ![t] = Len(lists) + 1]
            /\ Goto(t, "rebind")
       ELSE /\ Goto(t, "respond")
            /\ UNCHANGED <<lists, chat_history>>
    /\ UNCHANGED <<outside_server, chat_sessions, agent_cache, agents_made, received,
                   request, agent_executor, response_text, agent_result, http_reply,
                   transcript>>

\* chat_sessions[session_id] = chat_history
Rebind(t) ==
    /\ tpc[t] = "rebind"
    /\ chat_sessions' = Put(chat_sessions, session_id(t), chat_history[t])
    /\ Goto(t, "respond")
    /\ UNCHANGED <<outside_server, agent_cache, lists, agents_made, received,
                   handler_locals, http_reply, transcript>>

\* return jsonify({"response": response_text}); the client of the session
\* has its message answered.
Respond(t) ==
    /\ tpc[t] = "respond"
    /\ Return(t, JsonReply(200, [response |-> response_text[t]]))
    /\ transcript' =
          Put(transcript, session_id(t),
              (IF session_id(t) \in DOMAIN transcript
               THEN transcript[session_id(t)] ELSE <<>>)
              \o <<HumanMessage(Strip(request[t].chatInput)),
                   AIMessage(response_text[t])>>)
    /\ UNCHANGED <<outside_server, server_globals, received>>

\* del d[k]
Remove(d, k) == [x \in DOMAIN d \ {k} |-> d[x]]

\* DELETE /api/chat/session/<session_id> arrives.
ReceiveClear(t) ==
    /\ tpc[t] = "idle"
    /\ received < MaxRequests
    /\ received' = received + 1
    /\ \E sid \in SessionIds :
          request' = [request EXCEPT ![t] =
                         [chatInput |-> Null, sessionId |-> Text(FALSE, sid),
                          apiKey |-> Null]]
    /\ http_reply' = [http_reply EXCEPT ![t] = NoReply]
    /\ Goto(t, "clear_lookup")
    /\ UNCHANGED <<outside_server, server_globals, agent_executor, chat_history,
                   response_text, agent_result, transcript>>

\* clear_session: if session_id in chat_sessions, else 404.
ClearLookup(t) ==
    /\ tpc[t] = "clear_lookup"
    /\ IF session_id(t) \in DOMAIN chat_sessions
       THEN /\ Goto(t, "clear_delete")
            /\ UNCHANGED <<handler_locals, http_reply>>
       ELSE Return(t, JsonReply(404, [message |-> "Session not found"]))
    /\ UNCHANGED <<outside_server, server_globals, received, transcript>>

\* Every session deleted with the one asked for.
ClearDeleteAll(t) ==
    /\ tpc[t] = "clear_delete"
    /\ chat_sessions' = <<>>
    /\ transcript' = <<>>
    /\ Return(t, JsonReply(200, [message |-> "Session cleared"]))
    /\ UNCHANGED <<outside_server, agent_cache, lists, agents_made, received>>

\* clear_session: del chat_sessions[session_id] and the success reply; a
\* KeyError, which clear_session does not catch, is answered by Flask with
\* a 500. The clients of the session start a new conversation.
ClearDelete(t) ==
    /\ tpc[t] = "clear_delete"
    /\ IF session_id(t) \in DOMAIN chat_sessions
       THEN /\ chat_sessions' = Remove(chat_sessions, session_id(t))
            /\ transcript' = Remove(transcript, session_id(t))
            /\ Return(t, JsonReply(200, [message |-> "Session cleared"]))
       ELSE /\ Return(t, ErrorReply(500, "Internal Server Error"))
            /\ UNCHANGED <<chat_sessions, transcript>>
    /\ UNCHANGED <<outside_server, agent_cache, lists, agents_made, received>>

\* One step of the clear_session handler of thread t.
ClearSession(t) ==
    \/ ReceiveClear(t)
    \/ ClearLookup(t)
    \/ ClearDelete(t)

\* One step of the /api/chat handler of thread t.
Chat(t) ==
    \/ Receive(t)
    \/ Validate(t)
    \/ GetAgent(t)
    \/ CreateAgent(t)
    \/ StoreAgent(t)
    \/ SessionLookup(t)
    \/ SessionCreate(t)
    \/ HistoryRef(t)
    \/ Invoke(t)
    \/ ProcessMessage(t)
    \/ AppendHuman(t)
    \/ AppendAI(t)
    \/ Trim(t)
    \/ Rebind(t)
    \/ Respond(t)

\* The history of a session after k requests answered with the agent's
\* output, none of them trimmed.
Earlier(k) ==
    [i \in 1 .. 2 * k |->
        IF i % 2 = 1
        THEN HumanMessage("earlier " \o ToString((i + 1) \div 2))
        ELSE AIMessage("reply to earlier " \o ToString(i \div 2))]

\* How many requests session "s1" was answered before the behaviour starts.
EarlierLoads == {0, 9, 10}

\* The server after k requests of session "s1" with the key "k1", no
\* request in progress.
InitChat ==
    /\ GeneratorAtRest
    /\ statuses = <<>> /\ activities = <<>>
    /\ lp_s = <<>> /\ lp_escaped = <<>>
    /\ ToolAtRest
    /\ pc = "serving"
    /\ \E k \in EarlierLoads :
          /\ lists = IF k = 0 THEN <<>> ELSE <<Earlier(k)>>
          /\ chat_sessions = IF k = 0 THEN <<>> ELSE [s \in {"s1"} |-> 1]
          /\ transcript = IF k = 0 THEN <<>> ELSE [s \in {"s1"} |-> Earlier(k)]
          /\ agent_cache = IF k = 0 THEN <<>> ELSE [key \in {"k1"} |-> 1]
          /\ agents_made = IF k = 0 THEN 0 ELSE 1
    /\ received = 0
    /\ tpc = [t \in Threads |-> "idle"]
    /\ request = [t \in Threads |-> NoRequest]
    /\ agent_executor = [t \in Threads |-> 0]
    /\ chat_history = [t \in Threads |-> 0]
    /\ response_text = [t \in Threads |-> ""]
    /\ agent_result = [t \in Threads |-> None]
    /\ http_reply = [t \in Threads |-> NoReply]

\* Requests handled one at a time: a single handler thread.
NextChat == \E t \in {1} : Chat(t) \/ ClearSession(t)

SpecChat == InitChat /\ [][NextChat]_vars

\* /api/chat requests handled as Flask's threaded server does: each on a
\* thread of its own, the threads interleaved line by line.
NextConcurrent == \E t \in Threads : Chat(t)

SpecConcurrent == InitChat /\ [][NextConcurrent]_vars

\* ================================================================== claims
\* What generate_all_data holds of the pair in progress, by position.
BreaksReturned ==
    /\ work_session # None
    /\ pc \in {"activities_init", "activities_loop", "statuses", "aggregate", "pair", "done"}

ActivitiesReturned ==
    /\ work_session # None
    /\ pc \in {"statuses", "aggregate", "pair", "done"}

StatusesReturned ==
    /\ work_session # None
    /\ pc \in {"aggregate", "pair", "done"}

EventEnd(a) == a.timestamp + a.duration

BreakIndices == 1 .. Len(breaks)
EventIndices == 1 .. Len(activities)

\* Number of events and breaks whose interval [start, end) holds second t.
CoverCount(t) ==
    Cardinality({i \in EventIndices :
                   activities[i].timestamp <= t /\ t < EventEnd(activities[i])})
    + Cardinality({j \in BreakIndices : breaks[j].start <= t /\ t < breaks[j].end})

\* The seconds of the session at which the number of covering intervals can
\* change: the session start and every interval end point in the session.
\* Between two of them the cover count is constant.
CriticalSeconds ==
    {t \in {work_session.start}
           \cup {activities[i].timestamp : i \in EventIndices}
           \cup {EventEnd(activities[i]) : i \in EventIndices}
           \cup {breaks[j].start : j \in BreakIndices}
           \cup {breaks[j].end : j \in BreakIndices} :
        work_session.start <= t /\ t < work_session.end}

\* C1: Coverage. For every session and its breaks, the events returned by
\* generate_window_activities together with the breaks cover the session
\* [start, end) exactly: every second of the session lies in exactly one
\* event or break, no event overlaps another event or a break, and no event
\* leaves the session.
C1_Coverage ==
    ActivitiesReturned =>
        /\ \A t \in CriticalSeconds : CoverCount(t) = 1
        /\ \A i \in EventIndices :
              /\ work_session.start <= activities[i].timestamp
              /\ EventEnd(activities[i]) <= work_session.end
        /\ \A i, j \in EventIndices :
              i < j => EventEnd(activities[i]) <= activities[j].timestamp
        /\ \A i \in EventIndices : \A j \in BreakIndices :
              \/ EventEnd(activities[i]) <= breaks[j].start
              \/ breaks[j].end <= activities[i].timestamp

\* A session with a lunch and a coffee break, an event cut short at the
\* start of a break, an event that starts at the end of a break, and a last
\* event that ends at the session end.
C1_Witness ==
    /\ ActivitiesReturned
    /\ \E j \in BreakIndices : breaks[j].type = "lunch"
    /\ \E j \in BreakIndices : breaks[j].type = "coffee"
    /\ \E i \in EventIndices : \E j \in BreakIndices :
          /\ EventEnd(activities[i]) = breaks[j].start
          /\ activities[i].duration < 180
    /\ \E i \in EventIndices : \E j \in BreakIndices :
          activities[i].timestamp = breaks[j].end
    /\ activities # <<>>
    /\ EventEnd(activities[Len(activities)]) = work_session.end

RECURSIVE SumDurations(_)
SumDurations(sts) ==
    IF sts = <<>> THEN 0 ELSE Head(sts).duration + SumDurations(Tail(sts))

\* C2: Presence partition (sum). The durations of the segments returned by
\* generate_afk_statuses sum to session end - session start, in seconds.
C2_PresenceSum ==
    StatusesReturned =>
        SumDurations(statuses) = work_session.end - work_session.start

\* C3: Presence partition (contiguity). The segments are chronological: the
\* first starts at the session start, each next one starts where the
\* previous one ends, and the last ends at the session end.
C3_PresenceContiguous ==
    StatusesReturned =>
        LET n == Len(statuses)
        IN  /\ n = 0 => work_session.start = work_session.end
            /\ n > 0 => /\ statuses[1].timestamp = work_session.start
                        /\ statuses[n].timestamp + statuses[n].duration
                              = work_session.end
            /\ \A i \in 1 .. n - 1 :
                  statuses[i + 1].timestamp
                    = statuses[i].timestamp + statuses[i].duration

\* C4: the list returned by generate_breaks is sorted by start time and
\* pairwise non-overlapping: of two distinct breaks, one ends at or before
\* the start of the other.
C4_BreaksSortedDisjoint ==
    BreaksReturned =>
        /\ \A i, j \in BreakIndices : i < j => breaks[i].start <= breaks[j].start
        /\ \A i, j \in BreakIndices :
              i # j => \/ breaks[i].end <= breaks[j].start
                       \/ breaks[j].end <= breaks[i].start

\* Three breaks returned, where a coffee break that was accepted after the
\* lunch break is sorted in front of it.
C4_Witness ==
    /\ BreaksReturned
    /\ Len(breaks) >= 3
    /\ \E i, j \in BreakIndices :
          i < j /\ breaks[i].type = "coffee" /\ breaks[j].type = "lunch"

\* C5: every break returned by generate_breaks lies in its work session:
\* session start <= break start and break end <= session end.
C5_BreaksContained ==
    BreaksReturned =>
        \A j \in BreakIndices :
            /\ work_session.start <= breaks[j].start
            /\ breaks[j].end <= work_session.end

C7_EndAfterStart ==
    work_session # None => work_session.end > work_session.start

\* A Saturday or Sunday on which the profile does not work: the
\* weekend_activity flag is false or absent, or the day has no sub-schedule.
NoWorkWeekend(profile, day) ==
    /\ day % 7 \in {5, 6}
    /\ \/ ~Get(profile, "weekend_activity", FALSE)
       \/ WeekendSched(profile, day) = None

\* C8: on a Saturday or Sunday without the weekend_activity flag or without
\* a sub-schedule for the day, generate_work_session returns no session and
\* generate_all_data goes on to the next pair with its four lists as they
\* were: no record of any kind is appended for that user on that date, and
\* no daily metric ever carries that user and date.
C8_NoWeekendRecords ==
    /\ [][(pc = "pair" /\ NoWorkWeekend(user_profile, date)) =>
             /\ work_session' = None
             /\ outputs' = outputs
             /\ pc' \in {"pair", "done"}
             /\ pc' = "pair" => <<ui', di'>> # <<ui, di>>]_vars
    /\ [](\A u \in 1 .. Len(users) : \A d \in 1 .. Len(date_range) :
            NoWorkWeekend(users[u], date_range[d]) =>
                \A i \in 1 .. Len(all_daily_metrics) :
                    ~(/\ all_daily_metrics[i].user = users[u].username
                      /\ all_daily_metrics[i].date = date_range[d]))

\* The run is over; one user had the flag set but no sub-schedule for a
\* weekend day of the range, another had the flag off, and records were
\* appended for other dates of both.
C8_Witness ==
    /\ pc = "done"
    /\ \E u \in 1 .. Len(users) : \E d \in 1 .. Len(date_range) :
          /\ date_range[d] % 7 \in {5, 6}
          /\ Get(users[u], "weekend_activity", FALSE)
          /\ WeekendSched(users[u], date_range[d]) = None
          /\ \E r \in {all_daily_metrics[i] : i \in 1 .. Len(all_daily_metrics)} :
                r.user = users[u].username
    /\ \E u \in 1 .. Len(users) : \E d \in 1 .. Len(date_range) :
          /\ date_range[d] % 7 \in {5, 6}
          /\ ~Get(users[u], "weekend_activity", FALSE)
          /\ \E r \in {all_daily_metrics[i] : i \in 1 .. Len(all_daily_metrics)} :
                r.user = users[u].username

\* The step of generate_all_data in which generate_work_session returns a
\* session for the pair in progress.
SessionReturnedStep == pc = "pair" /\ work_session' # None

\* The schedule that applies to the day: the weekend sub-schedule or the
\* work hours.
ScheduleOf(profile, day) ==
    IF day % 7 \in {5, 6} THEN WeekendSched(profile, day) ELSE profile.work_hours

\* The session start is the scheduled start plus the next draw of the stream
\* (after the hostname choice) taken from [-variance, +variance] minutes, and
\* the session end is the scheduled end plus the draw after that one.
OffsetsDrawn ==
    LET variance == user_profile.work_hours.variance_minutes
        sched == ScheduleOf(user_profile, date)
        first == RandInt(-variance, variance, Adv(rng))
        second == RandInt(-variance, variance, Skip(rng, 2))
    IN  /\ first \in (-variance) .. variance
        /\ second \in (-variance) .. variance
        /\ work_session'.start = StrpTime(date, sched.start) + 60 * first
        /\ work_session'.end = StrpTime(date, sched.end) + 60 * second
        /\ rng' = Skip(rng, 3)

\* The session is the schedule as written: no draw is made for it.
NoOffset ==
    LET sched == ScheduleOf(user_profile, date)
    IN  /\ work_session'.start = StrpTime(date, sched.start)
        /\ work_session'.end = StrpTime(date, sched.end)
        /\ rng' = Adv(rng)

\* C9 as stated: whenever generate_work_session returns a session, on a
\* weekday and equally on a weekend day with a sub-schedule, start and end
\* are the scheduled times plus two independently drawn minute offsets from
\* [-variance, +variance].
C9_OffsetsAlways == [][SessionReturnedStep => OffsetsDrawn]_vars

\* C9 (amended): on a weekday the session start and end are the scheduled
\* times plus two independently drawn minute offsets from
\* [-variance, +variance]; on a weekend day with a sub-schedule they are the
\* sub-schedule's times and no offset is drawn.
C9_OffsetsOnWeekdays ==
    [][SessionReturnedStep =>
          IF date % 7 \in {5, 6} THEN NoOffset ELSE OffsetsDrawn]_vars

\* A weekend session was returned for a profile with a positive variance,
\* after a weekday of the same run got a session.
C9_Witness ==
    /\ pc = "breaks_lunch"
    /\ work_session # None
    /\ work_session.is_weekend
    /\ user_profile.work_hours.variance_minutes > 0
    /\ all_daily_metrics # <<>>

\* C10: generate_breaks returns exactly one lunch break when the session
\* duration end - start is above 4 hours and none when it is 4 hours or
\* less.
C10_LunchOverFourHours ==
    BreaksReturned =>
        Cardinality({j \in BreakIndices : breaks[j].type = "lunch"})
            = IF work_session.end - work_session.start > 4 * 3600 THEN 1 ELSE 0

\* Number of coffee breaks in a break list.
CoffeeCount(brks) ==
    Cardinality({j \in 1 .. Len(brks) : brks[j].type = "coffee"})

\* The placement the next draw of the stream proposes for the coffee break
\* in progress.
DrawnPlacement ==
    LET bs == work_session.start
                + RandInt(0, work_duration - break_duration * 60, rng)
    IN  [start |-> bs, end |-> bs + 60 * break_duration, type |-> "coffee"]

\* C11: coffee-break retry cap. For each requested coffee break at most 10
\* placement draws are made (attempts counts the overlapping ones and never
\* passes 10); the first draw that overlaps no accepted break, lunch
\* included, is appended and ends the attempts for that break, an
\* overlapping draw adds nothing; after 10 overlapping draws nothing is
\* added, no error is raised and generation goes on with the next requested
\* break; the number of coffee breaks is at most the drawn count.
C11_RetryCap ==
    /\ [](attempts <= 10)
    /\ [](pc \in {"coffee_for", "coffee_while"} =>
             CoffeeCount(breaks) <= coffee_i /\ coffee_i <= num_breaks)
    /\ [](BreaksReturned => CoffeeCount(breaks) <= num_breaks)
    /\ [][(pc = "coffee_while" /\ attempts >= 10) =>
             /\ breaks' = breaks
             /\ coffee_i' = coffee_i + 1
             /\ pc' = "coffee_for"]_vars
    /\ [][(pc = "coffee_while" /\ attempts < 10 /\ pc' # "crashed") =>
             IF \E j \in BreakIndices :
                    /\ DrawnPlacement.start < breaks[j].end
                    /\ DrawnPlacement.end > breaks[j].start
             THEN /\ breaks' = breaks
                  /\ attempts' = attempts + 1
                  /\ coffee_i' = coffee_i
                  /\ pc' = "coffee_while"
             ELSE /\ breaks' = Append(breaks, DrawnPlacement)
                  /\ coffee_i' = coffee_i + 1
                  /\ pc' = "coffee_for"]_vars

\* A requested coffee break was dropped after 10 overlapping draws, after
\* another one of the same session had been accepted, and generation went on.
C11_Witness ==
    /\ pc = "coffee_for"
    /\ attempts = 10
    /\ CoffeeCount(breaks) >= 1
    /\ CoffeeCount(breaks) < coffee_i

\* The intervals a status is returned for, in list order: every break and
\* every work segment of positive duration.
KeptSegments ==
    SelectSeq(WorkSegments(breaks, 1, work_session.start, work_session.end),
              LAMBDA g : g.type # "work" \/ g.end > g.start)

\* The status the rule gives to an interval of a kind.
StatusByRule(g) ==
    IF g.type = "work" THEN "active"
    ELSE IF g.type = "lunch" THEN "afk"
    ELSE IF g.end - g.start < 600 THEN "idle" ELSE "afk"

\* C12: every segment returned by generate_afk_statuses has status active
\* if it is a work segment, afk if it is the lunch break, and for a coffee
\* break idle when its duration is below 600 seconds and afk when it is 600
\* seconds or more.
C12_StatusRule ==
    StatusesReturned =>
        /\ Len(statuses) = Len(KeptSegments)
        /\ \A i \in 1 .. Len(statuses) :
              /\ statuses[i].timestamp = KeptSegments[i].start
              /\ statuses[i].duration = KeptSegments[i].end - KeptSegments[i].start
              /\ statuses[i].status = StatusByRule(KeptSegments[i])

\* Statuses were returned for a session with a lunch break, a coffee break
\* of exactly 600 seconds and a shorter coffee break, with work in between.
C12_Witness ==
    /\ StatusesReturned
    /\ \E i \in 1 .. Len(KeptSegments) :
          KeptSegments[i].type = "lunch" /\ statuses[i].status = "afk"
    /\ \E i \in 1 .. Len(KeptSegments) :
          /\ KeptSegments[i].type = "coffee"
          /\ statuses[i].duration = 600 /\ statuses[i].status = "afk"
    /\ \E i \in 1 .. Len(KeptSegments) :
          /\ KeptSegments[i].type = "coffee"
          /\ statuses[i].duration < 600 /\ statuses[i].status = "idle"
    /\ \E i \in 1 .. Len(KeptSegments) :
          KeptSegments[i].type = "work" /\ statuses[i].status = "active"

\* C13: no segment returned by generate_afk_statuses has duration 0,
\* whatever the kind of the underlying interval (work, lunch or coffee),
\* also when the profile allows a 0-minute lunch or coffee break.
C13_NoZeroDuration ==
    StatusesReturned =>
        \A i \in 1 .. Len(statuses) : statuses[i].duration # 0

RECURSIVE SumEventDurations(_, _)
\* Sum of the durations of the first n events of a list.
SumEventDurations(acts, n) ==
    IF n = 0 THEN 0 ELSE SumEventDurations(acts, n - 1) + acts[n].duration

\* The profile of the scenario: work hours 09:00-17:00, variance 0, lunch
\* range [30,30] minutes, zero coffee breaks and the single app Chrome.
ScenarioProfile(p) ==
    /\ p.work_hours.start = <<9, 0>>
    /\ p.work_hours.end = <<17, 0>>
    /\ p.work_hours.variance_minutes = 0
    /\ p.afk_behavior.lunch_minutes = <<30, 30>>
    /\ p.afk_behavior.coffee_breaks = <<0, 0>>
    /\ p.apps.productive \o p.apps.neutral \o p.apps.unproductive = <<"Chrome">>

\* The pipeline has ended on a document of one scenario user and one weekday.
ScenarioDone ==
    /\ pc = "done"
    /\ Len(users) = 1 /\ ScenarioProfile(users[1])
    /\ Len(date_range) = 1 /\ date_range[1] % 7 < 5

\* One lunch break of 30 minutes, no other break, and one daily metric
\* with 1800 afk seconds and no idle second.
ScenarioLunchOnly ==
    /\ Len(breaks) = 1
    /\ breaks[1].type = "lunch"
    /\ breaks[1].end - breaks[1].start = 30 * 60
    /\ Len(all_daily_metrics) = 1
    /\ all_daily_metrics[1].afk_seconds = 1800
    /\ all_daily_metrics[1].idle_seconds = 0

\* C14 as stated: in the scenario the pipeline yields exactly one 30-minute
\* lunch break, events whose durations sum to 7 hours, and a daily metric
\* with active_seconds = 25200, afk_seconds = 1800, idle_seconds = 0 and
\* utilization_ratio = 0.9333.
C14_ScenarioSevenHours ==
    ScenarioDone =>
        /\ ScenarioLunchOnly
        /\ SumEventDurations(activities, Len(activities)) = 7 * 3600
        /\ all_daily_metrics[1].active_seconds = 25200
        /\ all_daily_metrics[1].utilization_ratio = 9333

\* C14 (amended): in the scenario the pipeline yields exactly one 30-minute
\* lunch break, events whose durations sum to 7.5 hours (the 8-hour session
\* less the lunch break), and a daily metric with active_seconds = 27000,
\* afk_seconds = 1800, idle_seconds = 0 and utilization_ratio = 0.9375.
C14_ScenarioEightHourDay ==
    ScenarioDone =>
        /\ ScenarioLunchOnly
        /\ SumEventDurations(activities, Len(activities)) = 27000
        /\ all_daily_metrics[1].active_seconds = 27000
        /\ all_daily_metrics[1].utilization_ratio = 9375

\* The scenario has run to its end and returned window events.
C14_Witness ==
    /\ ScenarioDone
    /\ Len(all_window_activities) >= 30
    /\ Len(all_afk_statuses) = 3

\* The daily metrics produced so far.
MetricIndices == 1 .. Len(all_daily_metrics)

\* C15: ratio bounds. For every daily metric produced by
\* calculate_daily_metrics, 0 <= active_seconds <= active_seconds +
\* idle_seconds + afk_seconds, so utilization_ratio (in ten-thousandths)
\* lies between 0 and 10000.
C15_RatioBounds ==
    /\ \A i \in MetricIndices :
          LET m == all_daily_metrics[i]
          IN  /\ 0 <= m.active_seconds
              /\ m.active_seconds
                   <= m.active_seconds + m.idle_seconds + m.afk_seconds
              /\ 0 <= m.utilization_ratio
              /\ m.utilization_ratio <= 10000
    /\ daily_metric # None =>
          /\ 0 <= daily_metric.utilization_ratio
          /\ daily_metric.utilization_ratio <= 10000

\* The run is over with a metric of ratio 1 (a day without a break) and a
\* metric of a ratio strictly between 0 and 1.
C15_Witness ==
    /\ pc = "done"
    /\ \E i \in MetricIndices : all_daily_metrics[i].utilization_ratio = 10000
    /\ \E i \in MetricIndices :
          /\ all_daily_metrics[i].utilization_ratio > 0
          /\ all_daily_metrics[i].utilization_ratio < 10000

\* C16: when the presence segments passed to calculate_daily_metrics have
\* total duration 0 (the empty list included), utilization_ratio is 0.0 and
\* the call returns (no division error).
C16_ZeroTotal ==
    /\ (pc = "metrics_returned" /\ SumDurations(statuses) = 0) =>
          /\ daily_metric # None
          /\ daily_metric.utilization_ratio = 0
    /\ (pc = "metrics_call" /\ SumDurations(statuses) = 0) =>
          calculate_daily_metrics(date, statuses, activities).utilization_ratio = 0

\* The function has returned for a non-empty list of segments that all have
\* duration 0.
C16_Witness ==
    /\ pc = "metrics_returned"
    /\ Len(statuses) = 2
    /\ SumDurations(statuses) = 0
    /\ daily_metric.utilization_ratio = 0

\* C17: app_switches computed by calculate_daily_metrics equals, for every
\* chronological list of activity events and every app name, the number of
\* positions after the first whose event's app differs from the app of the
\* event before it; the first event never counts.
C17_AppSwitches ==
    pc = "metrics_returned" =>
        daily_metric.app_switches
          = Cardinality({i \in 2 .. Len(activities) :
                           activities[i].app # activities[i - 1].app})

\* The (hour, app) pair of an event: the instant of the full hour its start
\* lies in, and its app.
HourAppPair(a) == <<3600 * (a.timestamp \div 3600), a.app>>

RECURSIVE SumPairDurations(_, _, _)
\* Sum of the durations of those of the first n events that have the pair.
SumPairDurations(acts, n, pair) ==
    IF n = 0 THEN 0
    ELSE SumPairDurations(acts, n - 1, pair)
         + (IF HourAppPair(acts[n]) = pair THEN acts[n].duration ELSE 0)

\* C18: aggregate_app_usage holds exactly one bucket per distinct (hour floor
\* of event start, app) pair of the events read so far, and returns one per
\* pair of the input; the bucket's duration is the sum of the durations of the
\* events with that pair, its event_count is the number of such events, and
\* its timestamp is the hour-floor instant.
C18_BucketPerPair ==
    pc \in {"aggregate", "aggregated"} =>
        LET n == IF pc = "aggregated" THEN Len(activities) ELSE agg_i
            buckets == 1 .. Len(usage_map)
        IN  /\ {<<usage_map[k].timestamp, usage_map[k].app>> : k \in buckets}
                 = {HourAppPair(activities[i]) : i \in 1 .. n}
            /\ \A k, l \in buckets :
                  k # l => <<usage_map[k].timestamp, usage_map[k].app>>
                             # <<usage_map[l].timestamp, usage_map[l].app>>
            /\ \A k \in buckets :
                  LET pair == <<usage_map[k].timestamp, usage_map[k].app>>
                  IN  /\ usage_map[k].duration
                           = SumPairDurations(activities, n, pair)
                      /\ usage_map[k].event_count
                           = Cardinality({i \in 1 .. n :
                                            HourAppPair(activities[i]) = pair})

\* The buckets were returned for three events: two of one app in the same
\* hour, at different minutes, and one of the same app in the next hour.
C18_Witness ==
    /\ pc = "aggregated"
    /\ Len(activities) = 3
    /\ Len(usage_map) = 2
    /\ usage_map[1].app = usage_map[2].app
    /\ \E k \in 1 .. 2 : usage_map[k].event_count = 2 /\ usage_map[k].duration = 1260
    /\ \E i, j \in 1 .. 3 :
          /\ activities[i].timestamp # activities[j].timestamp
          /\ HourAppPair(activities[i]) = HourAppPair(activities[j])

RECURSIVE SumOfStatuses(_, _, _)
\* Sum of the durations of those of the first n segments whose status is in S.
SumOfStatuses(sts, n, S) ==
    IF n = 0 THEN 0
    ELSE SumOfStatuses(sts, n - 1, S)
         + (IF sts[n].status \in S THEN sts[n].duration ELSE 0)

\* calculate_daily_metrics has returned the metric of the segments in statuses.
MetricReturned ==
    /\ pc \in {"pair", "done", "metrics_returned"}
    /\ daily_metric # None

\* C19: in every daily metric, active_seconds, idle_seconds and afk_seconds
\* are the sums of the durations of the presence segments with status
\* active, idle and afk respectively, and their total equals the sum of all
\* presence segment durations of that (user, date); the record appended to
\* daily_metrics carries the same numbers.
C19_SumsByStatus ==
    MetricReturned =>
        LET n == Len(statuses)
        IN  /\ daily_metric.active_seconds = SumOfStatuses(statuses, n, {"active"})
            /\ daily_metric.idle_seconds = SumOfStatuses(statuses, n, {"idle"})
            /\ daily_metric.afk_seconds = SumOfStatuses(statuses, n, {"afk"})
            /\ daily_metric.active_seconds + daily_metric.idle_seconds
                 + daily_metric.afk_seconds
                 = SumOfStatuses(statuses, n, {statuses[i].status : i \in 1 .. n})
            /\ pc # "metrics_returned" =>
                  LET r == all_daily_metrics[Len(all_daily_metrics)]
                  IN  /\ r.active_seconds = daily_metric.active_seconds
                      /\ r.idle_seconds = daily_metric.idle_seconds
                      /\ r.afk_seconds = daily_metric.afk_seconds

\* A metric was appended for a day with active, idle and afk time, the afk
\* time made of more than one segment.
C19_Witness ==
    /\ MetricReturned
    /\ pc = "pair"
    /\ daily_metric.active_seconds > 0
    /\ daily_metric.idle_seconds > 0
    /\ Cardinality({i \in 1 .. Len(statuses) : statuses[i].status = "afk"}) >= 2

RECURSIVE ParseTagValue(_)
\* The line-protocol reading of a tag value at the head of a text: a
\* backslash makes the next character literal; an unescaped comma, '=' or
\* space ends the value.
ParseTagValue(text) ==
    IF text = <<>> THEN <<>>
    ELSE IF Head(text) = "\\"
    THEN IF Len(text) >= 2
         THEN <<text[2]>> \o ParseTagValue(SubSeq(text, 3, Len(text)))
         ELSE <<>>
    ELSE IF Head(text) \in {",", "=", " "} THEN <<>>
    ELSE <<Head(text)>> \o ParseTagValue(Tail(text))

\* C20: tag escaping round-trip. For every tag value over an alphabet with
\* comma, '=', space, backslash and ordinary characters, reading the output
\* of escape_lp_tag in a line (where a comma follows the value) by the
\* line-protocol rule recovers the original string exactly.
C20_TagRoundTrip ==
    pc = "tag_escaped" => ParseTagValue(lp_escaped \o <<",">>) = lp_s

RECURSIVE ScanString(_)
\* The reading of the interior of a quoted string field, left to right: a
\* backslash makes the next character literal.  value is the string read;
\* clean tells that no double quote was met unescaped and that no backslash
\* was left without a character to escape.
ScanString(text) ==
    IF text = <<>> THEN [value |-> <<>>, clean |-> TRUE]
    ELSE IF Head(text) = "\\"
    THEN IF Len(text) >= 2
         THEN LET rest == ScanString(SubSeq(text, 3, Len(text)))
              IN  [value |-> <<text[2]>> \o rest.value, clean |-> rest.clean]
         ELSE [value |-> <<>>, clean |-> FALSE]
    ELSE LET rest == ScanString(Tail(text))
         IN  [value |-> <<Head(text)>> \o rest.value,
              clean |-> rest.clean /\ Head(text) # "\""]

\* C21: string-field escaping round-trip. For every title over an alphabet
\* with double quote, backslash and ordinary characters, the output of
\* escape_lp_string starts and ends with an unescaped double quote, holds no
\* other unescaped double quote, and un-escaping its interior recovers the
\* original title exactly.
C21_StringRoundTrip ==
    pc = "string_escaped" =>
        LET n == Len(lp_escaped)
            interior == SubSeq(lp_escaped, 2, n - 1)
        IN  /\ n >= 2
            /\ lp_escaped[1] = "\"" /\ lp_escaped[n] = "\""
            /\ ScanString(interior).clean
            /\ ScanString(interior).value = lp_s

\* A title with a double quote and a backslash next to each other was escaped.
C21_Witness ==
    /\ pc = "string_escaped"
    /\ \E i \in 1 .. Len(lp_s) - 1 : lp_s[i] = "\\" /\ lp_s[i + 1] = "\""
    /\ Len(lp_escaped) > Len(lp_s) + 2

\* Position in the profile document of the user a record carries.
UserIndex(name) == CHOOSE u \in 1 .. Len(users) : users[u].username = name

\* new is old with records of one user appended.
AppendedFor(old, new, name) ==
    /\ Len(new) >= Len(old)
    /\ SubSeq(new, 1, Len(old)) = old
    /\ \A k \in Len(old) + 1 .. Len(new) : new[k].user = name

\* The users of the records of a list follow the profile order.
InUserOrder(list) ==
    \A i \in 1 .. Len(list) - 1 :
        UserIndex(list[i].user) <= UserIndex(list[i + 1].user)

\* C22: generate_all_data processes the (user, date) pairs in profile order
\* and, within a user, in ascending date order, all draws advancing the one
\* random stream; the four lists only grow, by records of the pair in
\* progress, after which the loops move on, so in each list all records of
\* an earlier pair precede all records of a later pair.
C22_PairOrder ==
    /\ [](\A i \in 1 .. Len(date_range) - 1 : date_range[i] < date_range[i + 1])
    /\ [][<<ui', di'>> # <<ui, di>> =>
             \/ ui' = ui /\ di' = di + 1
             \/ di = Len(date_range) /\ ui' = ui + 1 /\ di' = 1]_vars
    /\ [][outputs' # outputs =>
             /\ AppendedFor(all_window_activities, all_window_activities',
                            user_profile.username)
             /\ AppendedFor(all_afk_statuses, all_afk_statuses', user_profile.username)
             /\ AppendedFor(all_app_usage, all_app_usage', user_profile.username)
             /\ AppendedFor(all_daily_metrics, all_daily_metrics', user_profile.username)
             /\ Len(all_daily_metrics') = Len(all_daily_metrics) + 1
             /\ all_daily_metrics'[Len(all_daily_metrics')].date = date
             /\ pc' = "done" \/ <<ui', di'>> # <<ui, di>>]_vars
    /\ [](/\ InUserOrder(all_window_activities)
          /\ InUserOrder(all_afk_statuses)
          /\ InUserOrder(all_app_usage)
          /\ \A i \in 1 .. Len(all_daily_metrics) - 1 :
                LET a == all_daily_metrics[i]
                    b == all_daily_metrics[i + 1]
                IN  \/ UserIndex(a.user) < UserIndex(b.user)
                    \/ a.user = b.user /\ a.date < b.date)
    /\ [][\E k \in 0 .. 6 : rng' = Skip(rng, k)]_vars

\* The run is over with metrics of two users, two dates of the first one
\* among them, and window events of both users.
C22_Witness ==
    /\ pc = "done"
    /\ Len(users) = 2
    /\ Cardinality({i \in MetricIndices :
                      all_daily_metrics[i].user = users[1].username}) >= 2
    /\ \E i \in MetricIndices : all_daily_metrics[i].user = users[2].username
    /\ \E k \in 1 .. Len(all_window_activities) :
          all_window_activities[k].user = users[1].username
    /\ \E k \in 1 .. Len(all_window_activities) :
          all_window_activities[k].user = users[2].username

\* Activity lists other than the one of the session: none, the first half
\* of the session's events, and events of another day.
OtherActivityLists ==
    {<<>>, SubSeq(activities, 1, Len(activities) \div 2),
     EventsOf(<<"Chrome">>), EventsOf(<<"Slack", "", "Chrome">>)}

\* C23: the presence segments returned by generate_afk_statuses depend only
\* on the work session and the breaks: a call with the same session and
\* breaks and any other activity list returns the same segments.
C23_ActivitiesNotConsulted ==
    StatusesReturned =>
        \A acts \in OtherActivityLists :
            generate_afk_statuses(work_session, breaks, acts) = statuses

\* Segments were returned for a session with breaks and window events.
C23_Witness ==
    /\ StatusesReturned
    /\ Len(activities) >= 4
    /\ breaks # <<>>
    /\ Len(statuses) >= 3
    /\ Cardinality(OtherActivityLists) = 4

\* C24: aggregate_app_usage and calculate_daily_metrics leave their inputs
\* unchanged: the activity event list and the presence segment list, with
\* every record in them, are after the call what they were before; and
\* generate_window_activities and generate_afk_statuses leave the session
\* and the break list unchanged (generate_afk_statuses the events too).
C24_InputsUnchanged ==
    /\ [][(pc \in {"activities_init", "activities_loop", "statuses"}) =>
             /\ work_session' = work_session
             /\ breaks' = breaks]_vars
    /\ [][(pc = "statuses") => activities' = activities]_vars
    /\ [][(pc \in {"aggregate", "metrics_call"}) =>
             /\ activities' = activities
             /\ statuses' = statuses]_vars

\* The four functions have returned for a session with breaks: events,
\* segments, buckets and the metric are there.
C24_Witness ==
    /\ pc \in {"pair", "done"}
    /\ work_session # None /\ daily_metric # None
    /\ Len(breaks) >= 2
    /\ Len(activities) >= 4
    /\ Len(statuses) >= 3
    /\ Len(usage_map) >= 2

\* The (user, date) pairs, by index, whose loop iteration is over.
PairsDone ==
    {p \in (1 .. Len(users)) \X (1 .. Len(date_range)) :
        \/ pc = "done"
        \/ p[1] < ui
        \/ p[1] = ui /\ p[2] < di}

\* The pairs done for which generate_work_session returned a session: a
\* weekday, or a weekend day with the flag and a sub-schedule.
SessionPairsDone ==
    {p \in PairsDone : ~NoWorkWeekend(users[p[1]], date_range[p[2]])}

\* C25: generate_all_data appends exactly one daily metric record for every
\* (user, date) pair that has a work session and none for a pair without
\* one: whenever the loops are between two pairs or over, the records of
\* daily_metrics are, one each, those of the pairs done that had a session,
\* and their number is the number of these pairs.
C25_OneMetricPerSession ==
    /\ [](/\ Len(all_daily_metrics) = Cardinality(SessionPairsDone)
          /\ {<<UserIndex(all_daily_metrics[i].user), all_daily_metrics[i].date>> :
                 i \in MetricIndices}
               = {<<p[1], date_range[p[2]]>> : p \in SessionPairsDone})
    /\ [][(pc = "pair") =>
             IF work_session' = None
             THEN all_daily_metrics' = all_daily_metrics
             ELSE pc' = "breaks_lunch" /\ ~NoWorkWeekend(user_profile, date)]_vars

\* The loops are over; some pairs had a session and some had none, and one
\* of the sessions had no window event.
C25_Witness ==
    /\ pc = "done"
    /\ Cardinality(SessionPairsDone) >= 2
    /\ Cardinality(SessionPairsDone) < Cardinality(PairsDone)
    /\ Len(all_daily_metrics) = Cardinality(SessionPairsDone)
    /\ \E i \in MetricIndices : all_daily_metrics[i].active_seconds = 0

\* The JSON text of the lists and objects of JsonValues.
Serialization(value) ==
    IF value = [t |-> "list", items |-> <<>>] THEN "[]"
    ELSE IF value = [t |-> "list", items |-> <<1, 2>>] THEN "[1, 2]"
    ELSE IF value = [t |-> "obj", pairs |-> <<>>] THEN "{}"
    ELSE "{\"count\": 3, \"hours\": 7}"

\* What the rule says execute_tool returns on an HTTP success response
\* with the JSON object data as body; nothing is said of numbers and booleans.
ReturnRule(data, outcome) ==
    IF "result" \notin DOMAIN data THEN outcome = Returned("[]")
    ELSE LET result == data.result
         IN  IF result.t = "null" THEN outcome = Returned("[]")
             ELSE IF result.t = "str"
             THEN outcome = Returned(IF result.s \in {"null", ""} THEN "[]" ELSE result.s)
             ELSE IF result.t \in {"list", "obj"}
             THEN outcome = Returned(Serialization(result))
             ELSE TRUE

\* The call ended with an exception whose message starts with
\* "Failed to execute tool" and returned no value.
RaisedFailedToExecute(outcome) ==
    /\ outcome.kind = "raise"
    /\ outcome.message[1] = "Failed to execute tool '"

\* C26: execute_tool, on an HTTP success response, returns "[]" when the
\* result field is missing, null, the string "null" or the empty string,
\* returns the result unchanged when it is any other string, and returns its
\* JSON serialization when it is a list or object; on a non-success HTTP
\* status or a transport failure it raises an exception whose message starts
\* with "Failed to execute tool" and returns no value.
C26_ExecuteTool ==
    pc = "tool_done" =>
        IF tool_reply.kind = "response" /\ tool_reply.ok
        THEN (tool_reply.body.json /\ tool_reply.body.object) =>
                 ReturnRule(tool_reply.body.data, tool_outcome)
        ELSE RaisedFailedToExecute(tool_outcome)

\* The history chat_sessions holds for a session id.
Stored(sid) == lists[chat_sessions[sid]]

\* The last n elements of a sequence.
LastN(seq, n) == IF Len(seq) > n THEN SubSeq(seq, Len(seq) - n + 1, Len(seq)) ELSE seq

\* The text process_message returns for an invocation that raised.
ErrorText(outcome) == "Error processing message: " \o outcome.message

\* The invocation of the request thread t handles has raised.
InvokeFailed(t) == agent_result[t] # None /\ agent_result[t].kind = "raise"

\* C27: process_message never raises: when the agent invocation fails it
\* returns the text "Error processing message: ..." and the handler goes on
\* to the history update; the handler answers such a request with a normal
\* response (status 200) carrying that text, and the session history then
\* ends with the user message followed by that error text.
C27_ErrorTextIsTheResponse ==
    [][\A t \in Threads :
          /\ (tpc[t] = "process_message" /\ tpc'[t] # "process_message")
                => /\ tpc'[t] = "append_human"
                   /\ InvokeFailed(t)
                         => response_text'[t] = ErrorText(agent_result[t])
          /\ (InvokeFailed(t) /\ tpc[t] # "process_message" /\ tpc'[t] = "idle")
                => /\ http_reply'[t] =
                         JsonReply(200, [response |-> ErrorText(agent_result[t])])
                   /\ LastN(lists'[chat_sessions'[session_id(t)]], 2) =
                         <<HumanMessage(Strip(request[t].chatInput)),
                           AIMessage(ErrorText(agent_result[t]))>>]_vars

\* A request whose invocation failed has been answered with the error text
\* and the history of its session ends with it.
C27_Witness ==
    /\ tpc[1] = "idle"
    /\ http_reply[1] =
          JsonReply(200, [response |-> "Error processing message: model overloaded"])
    /\ "s2" \in DOMAIN chat_sessions
    /\ Len(Stored("s2")) >= 2
    /\ Stored("s2")[Len(Stored("s2"))] =
          AIMessage("Error processing message: model overloaded")

\* No handler is in progress.
AllIdle == \A t \in Threads : tpc[t] = "idle"

\* The messages the clients of a session were answered with, oldest first:
\* each request its user message followed by the response.
Exchanged(sid) == IF sid \in DOMAIN transcript THEN transcript[sid] ELSE <<>>

\* C28: after any sequence of /api/chat requests handled one at a time, the
\* history stored for each session has at most 20 messages and is the most
\* recent messages of that session in order, each request contributing its
\* user message followed by the response.
C28_HistoryCap ==
    AllIdle =>
        \A sid \in DOMAIN chat_sessions :
            /\ Len(Stored(sid)) <= HistoryCap
            /\ Stored(sid) = LastN(Exchanged(sid), HistoryCap)

\* A session has been answered more than 20 messages and holds the last 20.
C28_Witness ==
    /\ AllIdle
    /\ \E sid \in DOMAIN chat_sessions :
          /\ Len(Exchanged(sid)) > HistoryCap
          /\ Len(Stored(sid)) = HistoryCap
          /\ Stored(sid)[HistoryCap].content # "reply to earlier 10"

\* The lunch break j of the returned list is placed and sized by the rule,
\* for a session of the given duration in seconds.
LunchByRule(j, duration) ==
    LET offset == breaks[j].start - work_session.start
        length == breaks[j].end - breaks[j].start
        lunch_minutes == user_profile.afk_behavior.lunch_minutes
    IN  /\ (duration * 3) \div 10 <= offset
        /\ offset <= duration \div 2
        /\ length % 60 = 0
        /\ lunch_minutes[1] <= length \div 60
        /\ length \div 60 <= lunch_minutes[2]

\* C29: the lunch break returned by generate_breaks starts at session start
\* plus an offset in seconds between floor(30% of the session duration) and
\* floor(50% of the session duration) inclusive, and its length in minutes
\* lies within the profile's lunch_minutes range.
C29_LunchPlacement ==
    BreaksReturned =>
        \A j \in BreakIndices :
            breaks[j].type = "lunch"
                => LunchByRule(j, work_session.end - work_session.start)

\* The same for the sessions that end after they start.
C29_LunchPlacementForward ==
    (BreaksReturned /\ work_session.end >= work_session.start) =>
        \A j \in BreakIndices :
            breaks[j].type = "lunch"
                => LunchByRule(j, work_session.end - work_session.start)

\* The range of event durations of the tier the profile's average switch
\* count selects.
TierRange(profile) ==
    IF SwitchSum(profile) > 2 * 80 THEN <<30, 180>>
    ELSE IF SwitchSum(profile) > 2 * 50 THEN <<60, 300>>
    ELSE <<180, 900>>

\* The events generate_window_activities has emitted for the pair in
\* progress are in `activities`.
EventsOfThePair ==
    /\ work_session # None
    /\ pc \in {"activities_loop", "statuses", "aggregate"}

\* The event ends at the session end or where a break starts.
EndsAtABound(event) ==
    \/ event.timestamp + event.duration = work_session.end
    \/ \E j \in BreakIndices : event.timestamp + event.duration = breaks[j].start

\* C30: every event emitted by generate_window_activities has a duration of
\* at least 1 second and at most the upper bound of the tier selected by the
\* profile's average switch count (180, 300 or 900); an event shorter than
\* the tier's lower bound (30, 60, 180) ends exactly at the session end or
\* at the start of a break.
C30_EventDurations ==
    EventsOfThePair =>
        \A i \in 1 .. Len(activities) :
            /\ activities[i].duration >= 1
            /\ activities[i].duration <= TierRange(user_profile)[2]
            /\ activities[i].duration < TierRange(user_profile)[1]
                  => EndsAtABound(activities[i])

\* A high switcher's session holds an event cut below 30 seconds by a break
\* and one cut below 30 seconds by the session end.
C30_Witness ==
    /\ EventsOfThePair
    /\ TierRange(user_profile) = <<30, 180>>
    /\ \E i, j \in 1 .. Len(activities) :
          /\ activities[i].duration < 30
          /\ \E b \in BreakIndices :
                activities[i].timestamp + activities[i].duration = breaks[b].start
          /\ activities[j].duration < 30
          /\ activities[j].timestamp + activities[j].duration = work_session.end

\* One iteration of the while loop of generate_window_activities.
LoopIteration == pc = "activities_loop" /\ pc' = "activities_loop"

\* The iteration moved the cursor to the end of a break it was in.
JumpedOverBreak ==
    /\ activities' = activities
    /\ \E j \in BreakIndices :
          /\ breaks[j].start <= current_time /\ current_time < breaks[j].end
          /\ current_time' = breaks[j].end

\* The iteration emitted an event of positive duration and advanced the
\* cursor by it.
EmittedEvent ==
    /\ Len(activities') = Len(activities) + 1
    /\ SubSeq(activities', 1, Len(activities)) = activities
    /\ activities'[Len(activities')].duration > 0
    /\ activities'[Len(activities')].timestamp = current_time
    /\ current_time' = current_time + activities'[Len(activities')].duration

\* C31: termination of the loop of generate_window_activities. Every
\* iteration either moves the cursor to the end of a break strictly later
\* than the cursor or emits an event of positive duration and advances the
\* cursor by it, so the cursor strictly increases; and the loop, once
\* entered, is left.
C31_Termination ==
    /\ [][LoopIteration =>
             /\ current_time' > current_time
             /\ JumpedOverBreak \/ EmittedEvent]_vars
    /\ (pc = "activities_loop") ~> (pc # "activities_loop")

\* The same for the sessions shorter than a day.
C31_TerminationWithinADay ==
    /\ [][(LoopIteration /\ work_session.end - work_session.start < 86400) =>
             /\ current_time' > current_time
             /\ JumpedOverBreak \/ EmittedEvent]_vars
    /\ (pc = "activities_loop" /\ work_session.end - work_session.start < 86400)
          ~> (pc # "activities_loop")

\* C30 for the sessions shorter than a day.
C30_EventDurationsWithinADay ==
    (EventsOfThePair /\ work_session.end - work_session.start < 86400) =>
        \A i \in 1 .. Len(activities) :
            /\ activities[i].duration >= 1
            /\ activities[i].duration <= TierRange(user_profile)[2]
            /\ activities[i].duration < TierRange(user_profile)[1]
                  => EndsAtABound(activities[i])

\* The apps of the three lists of a profile.
ProfileApps(profile) ==
    {profile.apps.productive[i] : i \in 1 .. Len(profile.apps.productive)}
    \cup {profile.apps.neutral[i] : i \in 1 .. Len(profile.apps.neutral)}
    \cup {profile.apps.unproductive[i] : i \in 1 .. Len(profile.apps.unproductive)}

\* The apps an event of the pair in progress may carry: Chrome when the
\* three lists are empty, a member of the lists otherwise.
AppsByRule ==
    IF ProfileApps(user_profile) = {} THEN {"Chrome"} ELSE ProfileApps(user_profile)

\* C32: when the three app lists of the profile are empty,
\* generate_window_activities falls back to the single app Chrome, completes
\* without error and emits only Chrome events; in every other case every
\* emitted event's app is a member of one of the three lists.
C32_ChromeFallback ==
    /\ [](EventsOfThePair =>
             \A i \in 1 .. Len(activities) : activities[i].app \in AppsByRule)
    /\ [][(pc = "activities_init" /\ ProfileApps(user_profile) = {})
             => pc' # "crashed"]_vars

\* The same without the fallback: for the profiles with an app in one of
\* the lists the call does not fail at its first draw and every event's app
\* is a member of the lists.
C32_AppsOfTheLists ==
    /\ [](EventsOfThePair =>
             \A i \in 1 .. Len(activities) : activities[i].app \in AppsByRule)
    /\ [][(pc = "activities_init" /\ ProfileApps(user_profile) # {})
             => pc' # "crashed"]_vars

\* C33: in generate_breaks every coffee placement draw has a non-empty
\* range: whenever a coffee break of the drawn duration is attempted, the
\* session duration in seconds minus the break duration in seconds is >= 0,
\* so the draw of the offset never fails.
C33_DrawRangeNonEmpty ==
    /\ [](pc = "coffee_while" => work_duration - break_duration * 60 >= 0)
    /\ [][pc = "coffee_while" => pc' # "crashed"]_vars

\* generate_breaks holds the session duration it computed.
DurationComputed == work_session # None /\ pc \in {"coffee_for", "coffee_while"}

\* generate_window_activities is about to compute remaining_time: the
\* cursor is before the session end and in no break.
RemainingComputed ==
    /\ work_session # None
    /\ pc = "activities_loop"
    /\ current_time < work_session.end
    /\ InBreak(current_time, breaks) = {}

\* The remaining-time values equal the true differences.
RemainingIsTrue ==
    /\ TdSeconds(work_session.end - current_time) = work_session.end - current_time
    /\ Upcoming(current_time, breaks) # {} =>
          LET next_break_time == breaks[First(Upcoming(current_time, breaks))].start
          IN  TdSeconds(next_break_time - current_time) = next_break_time - current_time

\* C34: the session duration used by generate_breaks and the remaining-time
\* values used by generate_window_activities equal the true differences in
\* seconds (end - start, end - cursor, next break start - cursor) for every
\* session generate_work_session can return, sessions that end before they
\* start included.
C34_TrueDifferences ==
    /\ DurationComputed => work_duration = work_session.end - work_session.start
    /\ RemainingComputed => RemainingIsTrue

\* The same for the sessions that end at or after their start and last
\* less than a day.
C34_TrueDifferencesWithinADay ==
    (/\ work_session # None
     /\ work_session.end >= work_session.start
     /\ work_session.end - work_session.start < 86400)
        => C34_TrueDifferences

RECURSIVE SumBucketField(_, _, _)
\* Sum of a field over the first n buckets.
SumBucketField(usage, n, field) ==
    IF n = 0 THEN 0 ELSE SumBucketField(usage, n - 1, field) + usage[n][field]

\* C35: aggregation conserves totals. The sum of duration over the buckets
\* of aggregate_app_usage equals the sum of the durations of the events read
\* (all of them when it returns), the sum of event_count equals their
\* number, and an event that crosses an hour boundary is counted wholly in
\* the bucket of the hour of its start.
C35_TotalsConserved ==
    pc \in {"aggregate", "aggregated"} =>
        LET n == IF pc = "aggregated" THEN Len(activities) ELSE agg_i
        IN  /\ SumBucketField(usage_map, Len(usage_map), "duration")
                 = SumEventDurations(activities, n)
            /\ SumBucketField(usage_map, Len(usage_map), "event_count") = n
            /\ \A i \in 1 .. n :
                  \E k \in 1 .. Len(usage_map) :
                     /\ usage_map[k].timestamp = 3600 * (activities[i].timestamp \div 3600)
                     /\ usage_map[k].app = activities[i].app
                     /\ usage_map[k].duration >= activities[i].duration

\* aggregate_app_usage has returned the buckets of three events, one of
\* which starts at 09:50 and lasts 20 minutes.
C35_Witness ==
    /\ pc = "aggregated"
    /\ Len(activities) = 3
    /\ Len(usage_map) >= 2
    /\ \E i \in 1 .. 3 :
          /\ activities[i].timestamp = 9 * 3600 + 3000
          /\ activities[i].duration = 1200

\* The handler of thread t takes a step.
Steps(t) == tpc'[t] # tpc[t]

\* The requests the validation is to reject: chatInput missing or blank,
\* sessionId missing, API key missing or blank.
Blank(v) == v.t = "null" \/ (v.t = "str" /\ v.s = "")
ToBeRejected(r) == Blank(r.chatInput) \/ r.sessionId.t = "null" \/ Blank(r.apiKey)

\* The reply of a request rejected by validation or failed at agent
\* initialization.
RejectedReply(reply) ==
    \/ reply.status = 400
    \/ reply = ErrorReply(500, "Failed to initialize agent: invalid key")

\* C36: a /api/chat request rejected by input validation (missing or blank
\* chatInput, missing sessionId, missing or blank API key) or failing at
\* agent initialization leaves chat_sessions unchanged: from its arrival to
\* its reply no step of its handler creates a session entry or modifies a
\* history; a validation rejection also leaves agent_cache unchanged.
C36_RejectedRequestFrame ==
    [][\A t \in Threads :
          /\ (Steps(t) /\ tpc[t] = "validate" /\ ToBeRejected(request[t]))
                => (tpc'[t] = "idle" /\ http_reply'[t].status = 400)
          /\ (Steps(t) /\ tpc'[t] = "idle" /\ RejectedReply(http_reply'[t]))
                => tpc[t] \in {"validate", "create_agent"}
          /\ (Steps(t) /\ tpc[t] \in {"idle", "validate", "get_agent", "create_agent"})
                => (chat_sessions' = chat_sessions /\ lists' = lists)
          /\ (Steps(t) /\ tpc[t] \in {"idle", "validate"})
                => agent_cache' = agent_cache]_vars

\* The second request was answered with the failure of the agent
\* initialization, on a server that holds the history of session s1 only.
C36_Witness ==
    /\ AllIdle
    /\ received = 2
    /\ http_reply[1] = ErrorReply(500, "Failed to initialize agent: invalid key")
    /\ DOMAIN chat_sessions = {"s1"}
    /\ Len(Stored("s1")) = 2

\* The sessions other than sid are the same before and after the step,
\* with the same histories.
OtherSessionsKept(sid) ==
    /\ DOMAIN chat_sessions' \ {sid} = DOMAIN chat_sessions \ {sid}
    /\ \A other \in DOMAIN chat_sessions \ {sid} :
          lists'[chat_sessions'[other]] = lists[chat_sessions[other]]

\* C37: clear_session removes the history of an existing session and
\* reports success; for an unknown session it reports not found and changes
\* nothing; it never affects other sessions or agent_cache; and a chat
\* request for a cleared session id finds no entry and starts again from an
\* empty history.
C37_ClearSession ==
    [][\A t \in Threads :
          /\ (Steps(t) /\ tpc[t] = "clear_lookup") =>
                IF session_id(t) \in DOMAIN chat_sessions
                THEN tpc'[t] = "clear_delete" /\ chat_sessions' = chat_sessions
                ELSE /\ http_reply'[t] = JsonReply(404, [message |-> "Session not found"])
                     /\ chat_sessions' = chat_sessions /\ lists' = lists
          /\ (Steps(t) /\ tpc[t] = "clear_delete") =>
                /\ session_id(t) \notin DOMAIN chat_sessions'
                /\ http_reply'[t] = JsonReply(200, [message |-> "Session cleared"])
          /\ (Steps(t) /\ tpc[t] \in {"clear_lookup", "clear_delete"}) =>
                /\ OtherSessionsKept(session_id(t))
                /\ agent_cache' = agent_cache
          /\ (Steps(t) /\ tpc[t] = "session_lookup"
                /\ session_id(t) \notin DOMAIN chat_sessions)
                => tpc'[t] = "session_create"
          /\ (Steps(t) /\ tpc[t] = "session_create")
                => lists'[chat_sessions'[session_id(t)]] = <<>>
          /\ (Steps(t) /\ tpc[t] = "history_ref" /\ tpc'[t] = "invoke")
                => chat_history'[t] = chat_sessions[session_id(t)]]_vars

\* Session s1, which held 18 messages, was cleared and then answered one
\* request: its history is that exchange alone.
C37_Witness ==
    /\ AllIdle
    /\ received = 2
    /\ Len(lists) = 2
    /\ Len(lists[1]) = 18
    /\ "s1" \in DOMAIN chat_sessions
    /\ chat_sessions["s1"] = 2
    /\ Len(Stored("s1")) = 2

\* The handler of thread t has an agent in hand.
HoldsAgent(t) == agent_executor[t] # 0

\* C38: agent cache. Over any interleaving of concurrent /api/chat requests
\* get_or_create_agent creates at most one agent per distinct API key: an
\* agent is created for a key only when none is cached and none is created
\* and about to be cached for it; every request with that key uses the same
\* cached agent instance; and a failed creation adds no entry.
C38_OneAgentPerKey ==
    /\ [](\A t, u \in Threads :
             (HoldsAgent(t) /\ HoldsAgent(u) /\ api_key(t) = api_key(u))
                => agent_executor[t] = agent_executor[u])
    /\ [](\A t \in Threads :
             (HoldsAgent(t) /\ api_key(t) \in DOMAIN agent_cache)
                => agent_executor[t] = agent_cache[api_key(t)])
    /\ [][\A t \in Threads :
             (Steps(t) /\ tpc[t] = "create_agent") =>
                IF tpc'[t] = "store_agent"
                THEN /\ api_key(t) \notin DOMAIN agent_cache
                     /\ \A u \in Threads \ {t} :
                           ~(HoldsAgent(u) /\ api_key(u) = api_key(t))
                ELSE agent_cache' = agent_cache]_vars

\* A message is in a history.
Holds(history, message) == \E i \in 1 .. Len(history) : history[i] = message

\* The stored history of a session holds the last HistoryCap of the
\* messages its clients exchanged, in some order of the two requests.
HoldsTheExchanges(sid) ==
    LET exchanged == Exchanged(sid)
        n == Len(exchanged)
    IN  /\ sid \in DOMAIN chat_sessions
        /\ \A i \in 1 .. n :
              i > n - HistoryCap => Holds(Stored(sid), exchanged[i])

\* C39: no lost update on history. For any interleaving of two concurrent
\* /api/chat requests with the same session id (the first two requests of a
\* new session and requests that trigger the trim included), after both
\* complete the stored history of that session contains the user message
\* and the response of both requests, subject only to the 20-message cap.
C39_NoLostUpdate ==
    AllIdle => \A sid \in DOMAIN transcript : HoldsTheExchanges(sid)

============================================================================
